---- MODULE Spec2Model ----
(***************************************************************************)
(* A model of the Mixminion client (lib/mixminion/ClientMain.py): the      *)
(* client lock, the SURB log, the packet pool (spool), the MixminionClient *)
(* flows sendForwardMessage, sendReplyMessage, sendMessages, poolMessages, *)
(* flushPool and generateReplyBlock, the server directory cache            *)
(* ClientDirectory, and path selection (getServerInfo, getPath,            *)
(* resolvePath, parsePath).  Every client command runs in a process of its *)
(* own;                                                                    *)
(* processes share the state directory (pool files, key file, directory    *)
(* files) and are serialised by the lock file only where the code takes    *)
(* it.                                                                     *)
(***************************************************************************)
EXTENDS Integers, Sequences, FiniteSets, TLC

(* ---------------------------- bounds ----------------------------------- *)
NumHandles == 2
MaxMsgs == 2
MaxTicks == 1
MaxSurbList == 2
MaxDirOps == 4
MaxPathEntries == 3
MaxHops == 4
MaxSwapAt == 2
MaxRescans == 2
MaxPrompts == 2

(* Security.PathLength and Security.SURBPathLength of the configuration.   *)
PathLength == 3
SURBPathLength == 2

Procs == {1, 2}
Handles == 1..NumHandles
Msgs == 1..(MaxMsgs + 1)
Routings == {"r1", "r2"}
Passwords == {"pw1", "pw2"}
Keys == {"k1", "k2"}
Surbs == {"sB", "sC"}

(* The working directories a command may be started from.  The SURB log is  *)
(* opened under the relative name userdir/surbs/log                         *)
(* (os.path.join("userdir", "surbs", "log")), so each working directory has *)
(* a log of its own.                                                        *)
Cwds == {"home", "work"}

(* The working directory of the commands that are all run from one place.   *)
HomeCwds == {"home"}

(* ------------------------ program constants ---------------------------- *)
ExpiredMargin == 60
SoonMargin == 5400
CleanSlack == 3600
CleanInterval == 86400
DaySeconds == 86400

(* The clock value at which the model starts, and the steps by which the   *)
(* wall clock may advance between two steps of the processes.              *)
StartTime == 1000000
TickSteps == {6000, 90000}

(* surb.timestamp: the expiry time of each reply block.                     *)
SurbTimestamp(s) ==
    IF s = "sB" THEN StartTime + 8000 ELSE StartTime + 14000

(* What a SURB log found on disk may hold under LAST_CLEANED: nothing (a    *)
(* log that anydbm has just created), or the text of an integer, recent or  *)
(* more than a day old.                                                     *)
LastCleanedOnDisk ==
    { [kind |-> "none", val |-> 0],
      [kind |-> "int", val |-> StartTime],
      [kind |-> "int", val |-> StartTime - 90000] }

(* The processes that run the send command with reply blocks, one after     *)
(* the other.                                                               *)
ReplyProcs == {1}

(* The first hop of the reply path handed to sendReplyMessage.              *)
ReplyRoutings == {"r1"}

SurbLists ==
    UNION { [1..n -> Surbs] : n \in 1..MaxSurbList }

VARIABLES
    proc,        \* per process: position and locals of the running command
    lockCount,   \* Lockfile.count of each process's _CLIENT_LOCKFILE
    pool,        \* the pool directory: handle -> file pkt_<handle>
    surbLog,     \* per working directory, the anydbm file userdir/surbs/log
    keyFile,     \* the file keys/SURBKey
    clock,       \* time.time()
    ticks,       \* number of clock advances so far
    nextMsg,     \* next packet identity handed out by the packet builder
    delivered,   \* packets accepted by MMTPClient.sendMessages
    built,       \* per SURB, number of buildReplyMessage calls made with it
    sendBegun,   \* packets for which a pool-first send reached the transport
    dirGz,       \* the installed directory file dir.gz
    imported,    \* the directory imported/: file name -> descriptor file
    cacheFile,   \* the file cache
    keystore,    \* the ClientDirectory object of the running command
    lastOp,      \* the last ClientDirectory operation and how it ended
    dirOps,      \* number of ClientDirectory operations made so far
    pathOp,      \* the last path resolution and its result
    loadOp       \* the construction of a ClientDirectory, step by step

(* The server directory: its files and the object that caches them.        *)
dirVars == <<dirGz, imported, cacheFile, keystore, lastOp, dirOps>>

vars == <<proc, lockCount, pool, surbLog, keyFile, clock, ticks, nextMsg,
          delivered, built, sendBegun, dirVars, pathOp, loadOp>>

Min(S) == CHOOSE x \in S : \A y \in S : x <= y

(* ------------------------------ files ---------------------------------- *)
AbsentKeyFile == [kind |-> "absent"]
EmptyKeyFile == [kind |-> "empty"]
ShortKeyFile == [kind |-> "short"]

NoFile == [kind |-> "none"]
PartialFile == [kind |-> "partial"]

previousMidnight(t) == (t \div DaySeconds) * DaySeconds

succeedingMidnight(t) == previousMidnight(t) + DaySeconds

PacketFile(m, r, t) ==
    [kind |-> "packet", magic |-> "PACKET-0", msg |-> m, routing |-> r,
     when |-> previousMidnight(t)]

packetExists(h) == pool[h].kind # "none"

(* ClientPool.getHandles: the names in the pool directory.                  *)
ListedHandles == { h \in Handles : packetExists(h) }

InPool(m) ==
    \E h \in Handles : pool[h].kind = "packet" /\ pool[h].msg = m

(* ------------------------------ lock ----------------------------------- *)
(* Lockfile.acquire(blocking=1): re-entrant in the holding process, and     *)
(* otherwise waits until no other process holds the file lock.              *)
Acquirable_Always(p) == TRUE

Acquirable(p) == \A q \in Procs \ {p} : lockCount[q] = 0

clientLock(p) ==
    /\ Acquirable(p)
    /\ lockCount' = [lockCount EXCEPT ![p] = @ + 1]

clientUnlock(p) ==
    /\ lockCount[p] > 0
    /\ lockCount' = [lockCount EXCEPT ![p] = @ - 1]

(* ---------------------------- SURB log --------------------------------- *)
(* In Python 2 a str compared with a float is ordered by type: a number is  *)
(* smaller than any string, so "self.log[hash] < now" is false for every    *)
(* stored value (the values are str(surb.timestamp), now is a float).       *)
StrLessThanFloat(storedValue, now) == FALSE

isSURBUsed(log, s) == s \in log.used

markSURBUsed_Noop(log, s) == log

markSURBUsed(log, s) == [log EXCEPT !.used = @ \cup {s}]

(* SURBLog.clean with now=None: now is time.time()+60*60, and LAST_CLEANED  *)
(* is written as str(now), the text of a float.                             *)
SURBLogClean(log, t) ==
    LET now == t + CleanSlack
        removed == { s \in log.used : StrLessThanFloat(SurbTimestamp(s), now) }
    IN  [used |-> log.used \ removed,
         lastCleaned |-> [kind |-> "float", val |-> now]]

(* int(self.log['LAST_CLEANED']): KeyError when the key is missing,         *)
(* ValueError when the stored text is that of a float.                      *)
OpenError(log) ==
    CASE log.lastCleaned.kind = "none"  -> "KeyError"
      [] log.lastCleaned.kind = "float" -> "ValueError"
      [] OTHER -> "none"

NeedsClean(log, t) == log.lastCleaned.val < t - CleanInterval

(* The three tests of the loop in generateReplyMessage, in order.           *)
SkipReason(log, s, now) ==
    LET timeLeft == SurbTimestamp(s) - now
    IN  IF isSURBUsed(log, s) THEN "used"
        ELSE IF timeLeft < ExpiredMargin THEN "expired"
        ELSE IF timeLeft < SoonMargin THEN "soon"
        ELSE "usable"

(* --------------------------- spool policy ------------------------------ *)
PoolFirst_Never(noPool, lazyPool) == FALSE

(* sendMessages: "if noPool or lazyPool: handles = [] else poolMessages".   *)
PoolFirst(noPool, lazyPool) == ~(noPool \/ lazyPool)

FailureAction_AlwaysPool(noPool, lazyPool, warnIfLost) ==
    IF noPool \/ lazyPool THEN "pool" ELSE "leave"

(* The except branch of sendMessages: what is done with a failed send.      *)
FailureAction(noPool, lazyPool, warnIfLost) ==
    IF noPool /\ warnIfLost THEN "lost"
    ELSE IF lazyPool THEN "pool"
    ELSE "leave"

(* "except MixProtocolError, e: raise UIError(str(e))".                     *)
RaisedAs(exc) == IF exc = "MixProtocolError" THEN "UIError" ELSE exc

(* flushPool catches MixError, of which UIError is a subclass.              *)
IsMixError(exc) == exc \in {"UIError", "MixError", "MixProtocolError"}

AfterSendError_Remove(kind, e) ==
    IF kind = "flush" /\ IsMixError(e) THEN "fl_rm_lock" ELSE "done"

(* Where an exception leaving sendMessages takes the caller: flushPool's    *)
(* "except MixError" logs and goes on with the next group, leaving the      *)
(* group's packets alone; any other exception, and any exception in the     *)
(* send commands, ends the command.                                         *)
AfterSendError(kind, e) ==
    IF kind = "flush" /\ IsMixError(e) THEN "fl_next" ELSE "done"

RemoveHandles_None(pl, hs) == pl

(* "for h in handles: if self.pool.packetExists(h): removePacket(h)".       *)
RemoveHandles(pl, hs) ==
    [h \in Handles |-> IF h \in hs /\ pl[h].kind # "none" THEN NoFile ELSE pl[h]]

TransportOutcomes == {"ok", "MixProtocolError", "TimeoutError"}

(* -------------------------- server directory --------------------------- *)
(* ClientDirectory.MAGIC, the tag of the cache file's format.               *)
MAGIC == "ClientKeystore-0"

MIXMINION_DIRECTORY_FINGERPRINT == "CD80DD1B8BE7CA2E13C928D57499992D56579CCD"

(* clean: "cutoff = now - 600".                                             *)
CleanCutoff == 600

Nicknames == {"foo", "Foo", "bar", "a", "A", "b", "c", "d", "e"}

(* str.lower() on the nicknames of the model.                               *)
Lower(n) == IF n = "Foo" THEN "foo" ELSE IF n = "A" THEN "a" ELSE n

LowerNicknames == { Lower(n) : n \in Nicknames }

Capabilities == {"mbox", "smtp", "relay"}

(* A parsed server descriptor: what getDigest, getNickname, getIdentity,    *)
(* ['Server']['Valid-After'/'Valid-Until'/'Published'] and getCaps give.    *)
ServerInfo(dg, nn, id, va, vu, pub, cp) ==
    [kind |-> "desc", digest |-> dg, nickname |-> nn, identity |-> id,
     validAfter |-> va, validUntil |-> vu, published |-> pub, caps |-> cp]

(* The descriptors that exist: foo under key K1 in an older and a newer     *)
(* edition, foo and Foo under another key, and bar, which expires soon.     *)
Descriptors ==
    { ServerInfo("dA", "foo", "K1", StartTime - 10000, StartTime + 50000,
                 StartTime - 20000, {"relay"}),
      ServerInfo("dB", "foo", "K2", StartTime - 10000, StartTime + 50000,
                 StartTime - 20000, {"relay", "smtp"}),
      ServerInfo("dC", "Foo", "K2", StartTime - 10000, StartTime + 50000,
                 StartTime - 20000, {"relay", "smtp"}),
      ServerInfo("dD", "foo", "K1", StartTime - 10000, StartTime + 50000,
                 StartTime - 15000, {"relay", "mbox"}),
      ServerInfo("dE", "bar", "K3", StartTime - 10000, StartTime + 3000,
                 StartTime - 20000, {"mbox"}) }

(* The servers of the directories used for path selection: four relays, two *)
(* of them exits as well, and a server that is an exit only.                *)
DirectoryServers ==
    { ServerInfo("sA", "a", "K4", StartTime - 10000, StartTime + 50000,
                 StartTime - 20000, {"relay"}),
      ServerInfo("sB", "b", "K5", StartTime - 10000, StartTime + 50000,
                 StartTime - 20000, {"relay", "smtp"}),
      ServerInfo("sC", "c", "K6", StartTime - 10000, StartTime + 50000,
                 StartTime - 20000, {"relay", "mbox"}),
      ServerInfo("sD", "d", "K7", StartTime - 10000, StartTime + 50000,
                 StartTime - 20000, {"relay"}),
      ServerInfo("sE", "e", "K8", StartTime - 10000, StartTime + 50000,
                 StartTime - 20000, {"smtp"}),
      ServerInfo("sA2", "A", "K4", StartTime - 5000, StartTime + 60000,
                 StartTime - 15000, {"relay"}) }

Digests == { d.digest : d \in Descriptors \cup DirectoryServers }

DescriptorOf(dg) ==
    CHOOSE d \in Descriptors \cup DirectoryServers : d.digest = dg

(* The names of the files under imported/ ("<nickname>-<time>", made unique *)
(* by openUnique); names are only ever compared for equality.               *)
FileNames == {1, 2}

(* What the directory server may answer: no connection, a directory that    *)
(* does not parse, one signed by another key, and a good directory.         *)
Download(cn, ps, sg, sv) ==
    [connects |-> cn, parses |-> ps, signer |-> sg, servers |-> sv]

Downloads ==
    { Download(FALSE, FALSE, "none", << >>),
      Download(TRUE, FALSE, "none", << >>),
      Download(TRUE, TRUE, "EE00", <<DescriptorOf("dB")>>),
      Download(TRUE, TRUE, MIXMINION_DIRECTORY_FINGERPRINT,
               <<DescriptorOf("dA"), DescriptorOf("dE")>>) }

(* The second member of a (ServerInfo, source) pair: 'D', or 'I:<fn>'.      *)
OriginD == [o |-> "D", fn |-> 0]
OriginI(f) == [o |-> "I", fn |-> f]

(* The default of "digestMap.get(digest, 'X')": no entry.                   *)
NoOrigin == [o |-> "X", fn |-> 0]

EmptyDigestMap == [g \in Digests |-> NoOrigin]

Range(seq) == { seq[i] : i \in 1..Len(seq) }

InfosOf(seq) == { e[1] : e \in Range(seq) }

(* ServerInfo.isExpiredAt, isNewerThan and isSupersededBy: a descriptor is  *)
(* superseded when newer descriptors cover its whole validity interval.     *)
isExpiredAt(info, when) == info.validUntil < when

isNewerThan(a, b) == a.published > b.published

isSupersededBy(info, others) ==
    LET newer == { o \in others : isNewerThan(o, info) }
        Covered(t) ==
            \E o \in newer : o.validAfter <= t /\ t < o.validUntil
        ends == { o.validUntil : o \in newer }
        points == {info.validAfter} \cup
                  { t \in ends : info.validAfter <= t /\ t < info.validUntil }
    IN  \A t \in points : Covered(t)

(* A process without a ClientDirectory object.                              *)
NoKeystore ==
    [alive |-> FALSE, lastModified |-> -1, lastDownload |-> -1,
     serverList |-> << >>, digestMap |-> EmptyDigestMap,
     byNickname |-> [n \in LowerNicknames |-> << >>],
     allServers |-> << >>,
     byCapability |-> [c \in Capabilities |-> << >>],
     scanning |-> FALSE]

(* The record of the last operation: its name, the error it ended with,    *)
(* and for an import the digest of the descriptor given and the time of     *)
(* the call.                                                                *)
NoOp ==
    [op |-> "none", err |-> "none", force |-> FALSE, upToDate |-> FALSE,
     fetched |-> FALSE, changed |-> FALSE, arg |-> "none", at |-> 0,
     strict |-> FALSE, info |-> [kind |-> "None"]]

byNicknameOf(sl) ==
    [n \in LowerNicknames |->
        SelectSeq(sl, LAMBDA e : Lower(e[1].nickname) = n)]

byCapabilityOf_RelayOnly(sl) ==
    [c \in Capabilities |->
        SelectSeq(sl, LAMBDA e : c = "relay" /\ c \in e[1].caps)]

byCapabilityOf(sl) ==
    [c \in Capabilities |-> SelectSeq(sl, LAMBDA e : c \in e[1].caps)]

(* __rebuildTables: byNickname, allServers and byCapability are filled by   *)
(* one pass over serverList.  A nickname without entries has no key in      *)
(* byNickname (an empty sequence here); the bucket byCapability[None] is    *)
(* the list allServers itself.                                              *)
rebuildTables(k) ==
    [k EXCEPT !.byNickname = byNicknameOf(k.serverList),
              !.allServers = k.serverList,
              !.byCapability = byCapabilityOf(k.serverList)]

saveImage_NoDigests(k) ==
    [kind |-> "cache", magic |-> MAGIC, lastModified |-> k.lastModified,
     lastDownload |-> k.lastDownload, serverList |-> k.serverList,
     digestMap |-> EmptyDigestMap]

(* __save: the pickled 5-tuple, written to cache.new and renamed to cache.  *)
saveImage(k) ==
    [kind |-> "cache", magic |-> MAGIC, lastModified |-> k.lastModified,
     lastDownload |-> k.lastDownload, serverList |-> k.serverList,
     digestMap |-> k.digestMap]

(* The tuple assignment of __load.                                          *)
unpickled(k, c) ==
    [k EXCEPT !.lastModified = c.lastModified,
              !.lastDownload = c.lastDownload,
              !.serverList = c.serverList,
              !.digestMap = c.digestMap]

(* The orders in which os.listdir may give the files under imported/.      *)
ListDirOrders(imp) ==
    LET present == { f \in FileNames : imp[f].kind # "none" }
        n == Cardinality(present)
    IN  { s \in [1..n -> present] :
            \A i, j \in 1..n : i # j => s[i] # s[j] }

(* rescan: the servers of dir.gz, then the files under imported/ in the     *)
(* order of os.listdir; __save; then __load, which reads the cache just     *)
(* written and rebuilds the tables.  The mtime of an imported file goes to  *)
(* the attribute lastModifed, which nothing reads.                          *)
rescan(k, dgz, imp, force, order) ==
    LET dm0 == IF force THEN EmptyDigestMap ELSE k.digestMap
        hasDir == dgz.kind = "dir"
        t == IF hasDir THEN dgz.mtime ELSE -1
        servers == IF hasDir THEN dgz.dl.servers ELSE << >>
        fromDir == [i \in 1..Len(servers) |-> <<servers[i], OriginD>>]
        fromImp == [i \in 1..Len(order) |->
                      <<imp[order[i]].desc, OriginI(order[i])>>]
        LastWith(g) ==
            LET is == { i \in 1..Len(order) : imp[order[i]].desc.digest = g }
            IN  IF is = {} THEN 0 ELSE CHOOSE i \in is : \A j \in is : j <= i
        dm == [g \in Digests |->
                 IF LastWith(g) > 0 THEN OriginI(order[LastWith(g)])
                 ELSE IF g \in { servers[i].digest : i \in 1..Len(servers) }
                 THEN OriginD
                 ELSE dm0[g]]
        k1 == [k EXCEPT !.lastModified = t, !.lastDownload = t,
                        !.serverList = fromDir \o fromImp,
                        !.digestMap = dm, !.scanning = TRUE]
    IN  [ks |-> rebuildTables(unpickled(k1, saveImage(k1))),
         cache |-> saveImage(k1), imp |-> imp, err |-> "none"]

(* __load: read the cache; with the right magic rebuild the tables, and     *)
(* otherwise, or when the file cannot be read, rescan -- unless a rescan    *)
(* has been made by this object before.                                     *)
load(k, cache, dgz, imp, order) ==
    LET k1 == IF cache.kind = "cache" THEN unpickled(k, cache) ELSE k
    IN  IF cache.kind = "cache" /\ cache.magic = MAGIC
        THEN [ks |-> rebuildTables(k1), cache |-> cache, imp |-> imp,
              err |-> "none"]
        ELSE IF k1.scanning
        THEN [ks |-> k1, cache |-> cache, imp |-> imp,
              err |-> "MixFatalError"]
        ELSE rescan(k1, dgz, imp, FALSE, order)

(* The test of clean on one (info, where) pair of serverList.               *)
cleanRemoves(k, e, cutoff) ==
    LET same == k.byNickname[Lower(e[1].nickname)]
        others == InfosOf(same)
        inDirectory == { x[1].digest : x \in { y \in Range(same) :
                                                 y[2].o = "D" } }
    IN  /\ e[2].o # "D"
        /\ \/ isExpiredAt(e[1], cutoff)
           \/ isSupersededBy(e[1], others)
           \/ e[1].digest \in inDirectory

unlink(imp, fs) ==
    [f \in FileNames |-> IF f \in fs THEN NoFile ELSE imp[f]]

(* clean: drop the imported descriptors that are expired, superseded or     *)
(* also in the directory, and their files; save and rebuild when the list   *)
(* got shorter.                                                             *)
clean(k, cache, imp, now) ==
    LET cutoff == now - CleanCutoff
        newServers ==
            SelectSeq(k.serverList, LAMBDA e : ~cleanRemoves(k, e, cutoff))
        gone == { e[2].fn : e \in { x \in Range(k.serverList) :
                                      cleanRemoves(k, x, cutoff) } }
        k1 == [k EXCEPT !.serverList = newServers]
    IN  IF Len(k.serverList) # Len(newServers)
        THEN [ks |-> rebuildTables(k1), cache |-> saveImage(k1),
              imp |-> unlink(imp, gone), err |-> "none"]
        ELSE [ks |-> k, cache |-> cache, imp |-> unlink(imp, gone),
              err |-> "none"]

(* "if s.getNickname() == nickname": the nicknames as they are written.     *)
sameNickname(a, b) == a = b

(* The checks of importFromFile, in their order.                            *)
importError(k, info, now) ==
    IF \E s \in InfosOf(k.serverList) :
          /\ sameNickname(s.nickname, info.nickname)
          /\ s.identity # info.identity
    THEN "IdentityKeyChanged"
    ELSE IF k.digestMap[info.digest].o = "I"
    THEN "AlreadyImported"
    ELSE IF isExpiredAt(info, now)
    THEN "Expired"
    ELSE IF /\ k.byNickname[Lower(info.nickname)] # << >>
            /\ isSupersededBy(info,
                              InfosOf(k.byNickname[Lower(info.nickname)]))
    THEN "Superseded"
    ELSE "none"

importFromFile_WriteFirst(k, cache, imp, info, now, fn) ==
    LET err == importError(k, info, now)
        k1 == [k EXCEPT !.serverList = Append(@, <<info, OriginI(fn)>>),
                        !.digestMap[info.digest] = OriginI(fn),
                        !.lastModified = now]
        written == [imp EXCEPT ![fn] = [kind |-> "desc", desc |-> info]]
    IN  IF err # "none"
        THEN [ks |-> k, cache |-> cache, imp |-> written, err |-> err]
        ELSE [ks |-> rebuildTables(k1), cache |-> saveImage(k1),
              imp |-> written, err |-> "none"]

(* importFromFile: after the checks the descriptor is written to a new file *)
(* fn under imported/, appended to serverList, entered in digestMap, and    *)
(* the cache is saved and the tables rebuilt.                               *)
importFromFile(k, cache, imp, info, now, fn) ==
    LET err == importError(k, info, now)
        k1 == [k EXCEPT !.serverList = Append(@, <<info, OriginI(fn)>>),
                        !.digestMap[info.digest] = OriginI(fn),
                        !.lastModified = now]
    IN  IF err # "none"
        THEN [ks |-> k, cache |-> cache, imp |-> imp, err |-> err]
        ELSE [ks |-> rebuildTables(k1), cache |-> saveImage(k1),
              imp |-> [imp EXCEPT ![fn] = [kind |-> "desc", desc |-> info]],
              err |-> "none"]

(* expungeByNickname: the imported entries of the nickname go, with their   *)
(* files; digestMap is left as it is, and lastModifed is an attribute that  *)
(* nothing reads.                                                           *)
expungeByNickname(k, cache, imp, nickname) ==
    LET Goes(e) == e[2].o # "D" /\ Lower(e[1].nickname) = Lower(nickname)
        newList == SelectSeq(k.serverList, LAMBDA e : ~Goes(e))
        gone == { e[2].fn : e \in { x \in Range(k.serverList) : Goes(x) } }
        k1 == [k EXCEPT !.serverList = newList]
    IN  IF gone # {}
        THEN [ks |-> rebuildTables(k1), cache |-> saveImage(k1),
              imp |-> unlink(imp, gone), err |-> "none"]
        ELSE [ks |-> k1, cache |-> cache, imp |-> imp, err |-> "none"]

validationError_ParseOnly(dl) ==
    IF ~dl.parses THEN "InvalidDirectory" ELSE "none"

(* downloadDirectory, once the file is read: ServerDirectory(fname=...)     *)
(* must parse, and the fingerprint of its signer must be the constant.      *)
validationError(dl) ==
    IF ~dl.parses THEN "InvalidDirectory"
    ELSE IF dl.signer # MIXMINION_DIRECTORY_FINGERPRINT THEN "BadIdentity"
    ELSE "none"

(* "if forceDownload or self.lastDownload < previousMidnight(now)".         *)
needsDownload(k, force, now) ==
    force \/ k.lastDownload < previousMidnight(now)

(* downloadDirectory: fetch into dir_new.gz, validate, delete the cache,    *)
(* rename dir_new.gz to dir.gz (its mtime is the time of the download) and  *)
(* rescan.  The file dir_new.gz is written and never read back: it is       *)
(* renamed, or left behind for the next download to overwrite.              *)
downloadDirectory(k, cache, dgz, imp, dl, now, order) ==
    IF ~dl.connects
    THEN [ks |-> k, cache |-> cache, imp |-> imp, dgz |-> dgz,
          err |-> "ConnectFailed", fetched |-> TRUE]
    ELSE IF validationError(dl) # "none"
    THEN [ks |-> k, cache |-> cache, imp |-> imp, dgz |-> dgz,
          err |-> validationError(dl), fetched |-> TRUE]
    ELSE LET dgz1 == [kind |-> "dir", dl |-> dl, mtime |-> now]
             r == rescan(k, dgz1, imp, FALSE, order)
         IN  [ks |-> r.ks, cache |-> r.cache, imp |-> imp, dgz |-> dgz1,
              err |-> "none", fetched |-> TRUE]

(* updateDirectory(forceDownload, now).                                     *)
updateDirectory(k, cache, dgz, imp, force, dl, now, order) ==
    IF needsDownload(k, force, now)
    THEN downloadDirectory(k, cache, dgz, imp, dl, now, order)
    ELSE [ks |-> k, cache |-> cache, imp |-> imp, dgz |-> dgz,
          err |-> "none", fetched |-> FALSE]

(* ---------------------------- path selection --------------------------- *)
(* ClientDirectory.DEFAULT_REQUIRED_LIFETIME.                               *)
DEFAULT_REQUIRED_LIFETIME == 3600

(* parsePath: "else: myNHops = 6".                                          *)
DefaultNHops == 6

(* Python's None, for an optional number, name, descriptor and address.     *)
None == [none |-> TRUE, val |-> 0]
Some(n) == [none |-> FALSE, val |-> n]
NoneName == "<None>"
NoneInfo == [kind |-> "None"]
NoAddress == [kind |-> "None"]

(* "if x:" on an optional number.                                           *)
Truthy(x) == ~x.none /\ x.val # 0

(* ceilDiv(a, b) for positive b.                                            *)
ceilDiv(a, b) == (a + b - 1) \div b

(* seq[:k] and seq[k:] of Python, where a negative k counts from the end.   *)
PyIndex(seq, k) ==
    LET j == IF k < 0 THEN k + Len(seq) ELSE k
    IN  IF j < 0 THEN 0 ELSE IF j > Len(seq) THEN Len(seq) ELSE j

SliceTo(seq, k) == SubSeq(seq, 1, PyIndex(seq, k))

SliceFrom(seq, k) == SubSeq(seq, PyIndex(seq, k) + 1, Len(seq))

(* An entry of a server list handed to getPath: a name as typed by the      *)
(* user, or a ServerInfo object.                                            *)
Name(s) == [kind |-> "name", name |-> s]

(* Address(exitType, exitAddress, lastHop) as parseAddress builds it; the   *)
(* exit address plays no part in path selection.                            *)
Address(tp, lastHop) == [kind |-> "address", exitType |-> tp,
                         lastHop |-> lastHop]

(* ServerInfo.isValidFrom(startAt, endAt).                                  *)
isValidFrom(info, startAt, endAt) ==
    info.validAfter <= startAt /\ endAt <= info.validUntil

(* The descriptor files that the user keeps outside the state directory,    *)
(* by name: one holds a descriptor that has expired.                        *)
ExistingFiles == {"fOld"}

FileDescriptor(fname) ==
    ServerInfo("dF", "old", "K9", StartTime - 90000, StartTime - 100,
               StartTime - 95000, {"relay"})

RECURSIVE findLoop_KeepFirst(_, _, _, _)
findLoop_KeepFirst(lst, startAt, endAt, u) ==
    IF lst = << >> THEN u
    ELSE LET info == Head(lst)[1]
             n == Lower(info.nickname)
         IN  findLoop_KeepFirst(Tail(lst), startAt, endAt,
                 IF ~isValidFrom(info, startAt, endAt) THEN u
                 ELSE IF u[n] # NoneInfo THEN u
                 ELSE [u EXCEPT ![n] = info])

(* __find: the descriptors of lst valid from startAt to endAt, one for     *)
(* each lowercased nickname, a later entry replacing the kept one unless    *)
(* the kept one is newer.                                                   *)
RECURSIVE findLoop(_, _, _, _)
findLoop(lst, startAt, endAt, u) ==
    IF lst = << >> THEN u
    ELSE LET info == Head(lst)[1]
             n == Lower(info.nickname)
         IN  findLoop(Tail(lst), startAt, endAt,
                 IF ~isValidFrom(info, startAt, endAt) THEN u
                 ELSE IF u[n] # NoneInfo /\ isNewerThan(u[n], info) THEN u
                 ELSE [u EXCEPT ![n] = info])

(* u.values(): a list in the dictionary's order, used here as a set.        *)
find(lst, startAt, endAt) ==
    LET u == findLoop(lst, startAt, endAt,
                      [n \in LowerNicknames |-> NoneInfo])
    IN  { u[n] : n \in LowerNicknames } \ {NoneInfo}

(* __findOne: "res[0]" or None.  The lists given to it hold one nickname.   *)
findOne(lst, startAt, endAt) ==
    LET res == find(lst, startAt, endAt)
    IN  IF res # {} THEN CHOOSE s \in res : TRUE ELSE NoneInfo

hasNickname(k, lc) == lc \in LowerNicknames /\ k.byNickname[lc] # << >>

(* getServerInfo(name, startAt, endAt, strict): the descriptor, None, or    *)
(* the MixError raised.                                                     *)
getServerInfo(k, name, startAt, endAt, strict) ==
    IF name.kind = "desc"
    THEN IF isValidFrom(name, startAt, endAt)
         THEN [err |-> "none", info |-> name]
         ELSE [err |-> "none", info |-> NoneInfo]
    ELSE IF hasNickname(k, Lower(name.name))
    THEN LET s == findOne(k.byNickname[Lower(name.name)], startAt, endAt)
         IN  IF s = NoneInfo
             THEN [err |-> "NoValidDescriptor", info |-> NoneInfo]
             ELSE [err |-> "none", info |-> s]
    ELSE IF name.name \in ExistingFiles
    THEN [err |-> "none", info |-> FileDescriptor(name.name)]
    ELSE IF strict
    THEN [err |-> "UnknownDescriptor", info |-> NoneInfo]
    ELSE [err |-> "none", info |-> NoneInfo]

(* self.byCapability[cap]: the key None names the list allServers.          *)
capList(k, cap) ==
    IF cap = NoneName THEN k.allServers ELSE k.byCapability[cap]

(* "[ info.getNickname().lower() for info in ... ]".                        *)
lcNicknames(infos) == { Lower(infos[i].nickname) : i \in 1..Len(infos) }

(* prng.shuffle(lst, n): n members of lst, each at most once, in any order. *)
shuffle(S, n) ==
    { s \in [1..n -> S] : \A i, j \in 1..n : i # j => s[i] # s[j] }

(* "(midList * ceilDiv(nNeeded, 2))[:nNeeded]".                             *)
tile(s, n) == [i \in 1..n |-> s[((i - 1) % Len(s)) + 1]]

(* An exception leaving path selection, and a path returned.                *)
Raised(e) == [err |-> e, path |-> << >>]
Returned(p) == [err |-> "none", path |-> p]

(* The test of the loop that picks the middle servers one by one: "if n !=  *)
(* prevNickname and (nNeeded > 1 or n != endNickname)".                     *)
acceptPick_Any(n, prevNickname, last, endNickname) == TRUE

acceptPick(n, prevNickname, last, endNickname) ==
    n # prevNickname /\ (~last \/ n # endNickname)

(* The last part of getPath: the nNeeded servers for the middle of the      *)
(* path, by the four methods, each result a sequence midServers.            *)
midServers_IgnoreUsed(midList, startServers, endServers, nNeeded) ==
    LET used == lcNicknames(startServers \o endServers)
        unusedMidList == { info \in midList : Lower(info.nickname) \notin used }
        prevNickname ==
            IF startServers # << >>
            THEN Lower(startServers[Len(startServers)].nickname)
            ELSE " (impossible nickname) "
        endNickname ==
            IF endServers # << >> THEN Lower(endServers[1].nickname)
            ELSE " (impossible nickname) "
        Before(t, i) == IF i = 1 THEN prevNickname
                        ELSE Lower(t[i - 1].nickname)
    IN  IF Cardinality(midList) >= nNeeded
        THEN { Returned(s) : s \in shuffle(midList, nNeeded) }
        ELSE IF Cardinality(midList) >= 3
        THEN { Returned(t) : t \in
                 { t \in [1..nNeeded -> midList] :
                     \A i \in 1..nNeeded :
                        acceptPick(Lower(t[i].nickname), Before(t, i),
                                   i = nNeeded, endNickname) } }
        ELSE IF Cardinality(midList) = 2
        THEN { Returned(tile(s, nNeeded)) : s \in shuffle(midList, 2) }
        ELSE IF Cardinality(midList) = 1
        THEN { Returned(<<m>>) : m \in midList }
        ELSE { Raised("NoRelaysKnown") }

midServers(midList, startServers, endServers, nNeeded) ==
    LET used == lcNicknames(startServers \o endServers)
        unusedMidList == { info \in midList : Lower(info.nickname) \notin used }
        prevNickname ==
            IF startServers # << >>
            THEN Lower(startServers[Len(startServers)].nickname)
            ELSE " (impossible nickname) "
        endNickname ==
            IF endServers # << >> THEN Lower(endServers[1].nickname)
            ELSE " (impossible nickname) "
        Before(t, i) == IF i = 1 THEN prevNickname
                        ELSE Lower(t[i - 1].nickname)
    IN  IF Cardinality(unusedMidList) >= nNeeded
        THEN { Returned(s) : s \in shuffle(unusedMidList, nNeeded) }
        ELSE IF Cardinality(midList) >= 3
        THEN { Returned(t) : t \in
                 { t \in [1..nNeeded -> midList] :
                     \A i \in 1..nNeeded :
                        acceptPick(Lower(t[i].nickname), Before(t, i),
                                   i = nNeeded, endNickname) } }
        ELSE IF Cardinality(midList) = 2
        THEN { Returned(tile(s, nNeeded)) : s \in shuffle(midList, 2) }
        ELSE IF Cardinality(midList) = 1
        THEN { Returned(<<m>>) : m \in midList }
        ELSE { Raised("NoRelaysKnown") }

(* getPath(midCap, endCap, length, startServers, endServers, startAt,       *)
(* endAt): every path that the random choices may give, or the error.       *)
getPath(k, midCap, endCap, length, startNames, endNames, startAt, endAt) ==
    LET rs == [i \in 1..Len(startNames) |->
                 getServerInfo(k, startNames[i], startAt, endAt, TRUE)]
        re == [i \in 1..Len(endNames) |->
                 getServerInfo(k, endNames[i], startAt, endAt, TRUE)]
        all == rs \o re
        bad == { i \in 1..Len(all) : all[i].err # "none" }
        startServers == [i \in 1..Len(rs) |-> rs[i].info]
        endServers == [i \in 1..Len(re) |-> re[i].info]
        nNeeded0 == IF Truthy(length)
                    THEN length.val - Len(startServers) - Len(endServers)
                    ELSE 0
        endList == find(capList(k, endCap), startAt, endAt)
        unusedEndList ==
            { info \in endList :
                Lower(info.nickname) \notin lcNicknames(startServers) }
        endChoices ==
            IF endServers # << >> THEN {endServers}
            ELSE IF unusedEndList # {}
            THEN { <<e>> : e \in unusedEndList }
            ELSE { <<e>> : e \in endList }
        nNeeded == IF endServers # << >> THEN nNeeded0 ELSE nNeeded0 - 1
        midList == find(capList(k, midCap), startAt, endAt)
        WithEnd(es) ==
            IF nNeeded = 0 THEN { Returned(startServers \o es) }
            ELSE IF NoneInfo \in Range(es) THEN { Raised("AttributeError") }
            ELSE { IF m.err # "none" THEN m
                   ELSE Returned(startServers \o m.path \o es) :
                   m \in midServers(midList, startServers, es, nNeeded) }
    IN  IF bad # {} THEN { Raised(all[Min(bad)].err) }
        ELSE IF nNeeded0 <= 0 THEN { Returned(startServers \o endServers) }
        ELSE IF endServers = << >> /\ endList = {}
        THEN { Raised("NoServersKnown") }
        ELSE UNION { WithEnd(es) : es \in endChoices }

(* The result of resolvePath and parsePath: the two legs, or the error;     *)
(* route is the path that getPath had returned, if it came to that.         *)
Failed(e) == [err |-> e, path1 |-> << >>, path2 |-> << >>, route |-> << >>]
Rejected(e, path) == [Failed(e) EXCEPT !.route = path]
Legs(p1, p2, path) == [err |-> "none", path1 |-> p1, path2 |-> p2,
                       route |-> path]

checkAndSplit_NoCapCheck(path, exitCap, nSwap, halfPath) ==
    LET sw == IF nSwap.none THEN ceilDiv(Len(path), 2) - 1 ELSE nSwap.val
        path1 == SliceTo(path, sw + 1)
        path2 == SliceFrom(path, sw + 1)
    IN  IF ~halfPath /\ (path1 = << >> \/ path2 = << >>)
        THEN Rejected("EmptyLeg", path)
        ELSE Legs(path1, path2, path)

(* resolvePath, from the path that getPath returned: the two capability     *)
(* tests, the default swap point and the split.                             *)
checkAndSplit(path, exitCap, nSwap, halfPath) ==
    LET sw == IF nSwap.none THEN ceilDiv(Len(path), 2) - 1 ELSE nSwap.val
        path1 == SliceTo(path, sw + 1)
        path2 == SliceFrom(path, sw + 1)
    IN  IF \E i \in 1..(Len(path) - 1) : path[i] = NoneInfo
        THEN Rejected("AttributeError", path)
        ELSE IF \E i \in 1..(Len(path) - 1) : "relay" \notin path[i].caps
        THEN Rejected("NoRelaySupport", path)
        ELSE IF exitCap # NoneName /\ path = << >>
        THEN Rejected("IndexError", path)
        ELSE IF exitCap # NoneName /\ path[Len(path)] = NoneInfo
        THEN Rejected("AttributeError", path)
        ELSE IF exitCap # NoneName /\ exitCap \notin path[Len(path)].caps
        THEN Rejected("NoExitSupport", path)
        ELSE IF ~halfPath /\ (path1 = << >> \/ path2 = << >>)
        THEN Rejected("EmptyLeg", path)
        ELSE Legs(path1, path2, path)

(* resolvePath(keystore, address, enterPath, exitPath, nHops, nSwap,        *)
(* startAt, endAt, halfPath).                                               *)
resolvePath(k, address, enterPath, exitPath, nHops, nSwap, startAt, endAt, halfPath) ==
    LET routingType == IF address = NoAddress THEN NoneName
                       ELSE address.exitType
        lastHop == IF address = NoAddress THEN NoneName
                   ELSE address.lastHop
        look == IF lastHop \notin {NoneName, ""}
                THEN getServerInfo(k, Name(lastHop), startAt, endAt, FALSE)
                ELSE [err |-> "none", info |-> NoneInfo]
        exitNode == IF lastHop = NoneName THEN << >>
                    ELSE IF lastHop = "" THEN <<Name("")>>
                    ELSE IF look.info = NoneInfo THEN << >>
                    ELSE <<look.info>>
        exitCap == IF routingType = "MBOX_TYPE" THEN "mbox"
                   ELSE IF routingType = "SMTP_TYPE" THEN "smtp"
                   ELSE NoneName
    IN  IF look.err # "none" THEN { Failed(look.err) }
        ELSE { IF g.err # "none" THEN Failed(g.err)
               ELSE checkAndSplit(g.path, exitCap, nSwap, halfPath) :
               g \in getPath(k, "relay", exitCap, nHops, enterPath,
                             exitPath \o exitNode, startAt, endAt) }

(* 'path.replace(":", ",*swap*,").split(",")' on a path string, given as    *)
(* its entries in order with ":" standing where a colon separates two of    *)
(* them; a missing or empty string is the path "*".                         *)
splitPath(str) ==
    IF str = << >> THEN <<"*">>
    ELSE [i \in 1..Len(str) |-> IF str[i] = ":" THEN "*swap*" ELSE str[i]]

(* The entries of lst that name servers, as the walk of parsePath appends   *)
(* them to enterPath or exitPath.                                           *)
namesOf(lst) ==
    LET kept == SelectSeq(lst, LAMBDA e : e \notin {"*", "*swap*"})
    IN  [i \in 1..Len(kept) |-> Name(kept[i])]

Second(S) == IF Cardinality(S) >= 2 THEN Min(S \ {Min(S)}) ELSE 0

(* parsePath(keystore, config, path, address, nHops, nSwap, startAt, endAt, *)
(* halfPath, defaultNHops).  Positions are counted from 0 as in the code.   *)
parsePath(k, str, address, nHops, nSwap, startAt, endAt, halfPath, defaultNHops) ==
    LET path == splitPath(str)
        stars == { i \in 1..Len(path) : path[i] = "*" }
        swaps == { i \in 1..Len(path) : path[i] = "*swap*" }
        hasStar == stars # {}
        hasSwap == swaps # {}
        starPos == IF hasStar THEN Min(stars) - 1 ELSE 0
        swapPos == IF hasSwap THEN Min(swaps) - 1 ELSE 0
        enterPath == IF hasStar THEN namesOf(SubSeq(path, 1, starPos))
                     ELSE namesOf(path)
        exitPath == IF hasStar
                    THEN namesOf(SubSeq(path, starPos + 2, Len(path)))
                    ELSE << >>
        myNHops0 == IF ~hasStar THEN Len(enterPath)
                    ELSE IF Truthy(nHops) THEN nHops.val
                    ELSE IF ~defaultNHops.none THEN defaultNHops.val
                    ELSE DefaultNHops
        afterStar == hasSwap /\ hasStar /\ swapPos > starPos
        lastHopGiven == address.lastHop \notin {NoneName, ""}
        myNSwap0 ==
            IF ~hasSwap THEN None
            ELSE IF ~afterStar THEN Some(swapPos - 1)
            ELSE Some(myNHops0 - Len(path) + swapPos
                        - (IF lastHopGiven THEN 1 ELSE 0))
        myNSwap == IF nSwap.none THEN myNSwap0 ELSE nSwap
        myNHops == IF nHops.none THEN myNHops0 ELSE nHops.val
    IN  IF Second(stars) > 0
           /\ (Second(swaps) = 0 \/ Second(stars) < Second(swaps))
        THEN { Failed("TwoWildcards") }
        ELSE IF Second(swaps) > 0
        THEN { Failed("TwoSwapPoints") }
        ELSE IF afterStar /\ address = NoAddress
        THEN { Failed("AttributeError") }
        ELSE IF ~nSwap.none /\ ~myNSwap0.none /\ myNSwap0.val # nSwap.val
        THEN { Failed("SwapMismatch") }
        ELSE IF ~nHops.none
                /\ (myNHops0 # nHops.val
                    \/ nHops.val < Len(enterPath) + Len(exitPath))
        THEN { Failed("HopsMismatch") }
        ELSE resolvePath(k, address, enterPath, exitPath, Some(myNHops),
                         myNSwap, startAt, endAt, halfPath)

(* parsePathLeg: parsePath with nSwap=-1 and halfPath=1, then               *)
(* "assert path1 == []".                                                    *)
parsePathLeg_DefaultSwap(k, str, nHops, address, startAt, endAt, defaultNHops) ==
    parsePath(k, str, address, nHops, None, startAt, endAt, TRUE,
              defaultNHops)

parsePathLeg(k, str, nHops, address, startAt, endAt, defaultNHops) ==
    { IF r.err = "none" /\ r.path1 # << >> THEN Failed("AssertionError")
      ELSE r :
      r \in parsePath(k, str, address, nHops, Some(-1), startAt, endAt,
                      TRUE, defaultNHops) }

(* The directories that update-servers may have installed: with one, two,   *)
(* three and four relays, and two that hold an older and a newer descriptor *)
(* of one server, in either order.                                          *)
PathDownloads ==
    { Download(TRUE, TRUE, MIXMINION_DIRECTORY_FINGERPRINT,
               <<DescriptorOf("dA"), DescriptorOf("dE")>>),
      Download(TRUE, TRUE, MIXMINION_DIRECTORY_FINGERPRINT,
               <<DescriptorOf("sA"), DescriptorOf("sB")>>),
      Download(TRUE, TRUE, MIXMINION_DIRECTORY_FINGERPRINT,
               <<DescriptorOf("sA"), DescriptorOf("sB"), DescriptorOf("sC")>>),
      Download(TRUE, TRUE, MIXMINION_DIRECTORY_FINGERPRINT,
               <<DescriptorOf("sA"), DescriptorOf("sB"), DescriptorOf("sC"),
                 DescriptorOf("sD"), DescriptorOf("sE"), DescriptorOf("dE")>>),
      Download(TRUE, TRUE, MIXMINION_DIRECTORY_FINGERPRINT,
               <<DescriptorOf("sA"), DescriptorOf("sA2"), DescriptorOf("sB"),
                 DescriptorOf("sC")>>),
      Download(TRUE, TRUE, MIXMINION_DIRECTORY_FINGERPRINT,
               <<DescriptorOf("sA2"), DescriptorOf("sA"), DescriptorOf("sB"),
                 DescriptorOf("sC")>>) }

(* Path strings: every string of at most MaxPathEntries entries, and the    *)
(* longer ones with four names, with a colon after the wildcard and with a  *)
(* descriptor file.                                                         *)
PathEntries == {"a", "b", "*", ":"}

PathStrings ==
    UNION { [1..n -> PathEntries] : n \in 0..MaxPathEntries }
    \cup { <<"a", "b", ":", "c", "d">>, <<"a", "*", "b", ":", "c">>,
           <<"a", "fOld", "b">>, <<"c", "*", "a", ":", "b">>,
           <<"e", "a">>, <<"a", "*", "e">>, <<"bar", "*">> }

DirectPaths == { << >>, <<"*">>, <<"a", "*">> }

(* Addresses as parseAddress returns them: drop, smtp:<mailbox>,            *)
(* mbox:<name> and mbox:<name>@<server> with a known and an unknown server. *)
Addresses ==
    { Address("DROP_TYPE", NoneName), Address("SMTP_TYPE", NoneName),
      Address("MBOX_TYPE", NoneName), Address("MBOX_TYPE", "c"),
      Address("MBOX_TYPE", "nosuch") }

HopOptions == {None} \cup { Some(n) : n \in 1..MaxHops }

SwapOptions == {None} \cup { Some(n) : n \in 0..MaxSwapAt }

SurbLifetimes == {0}

(* The last path resolution: what was asked and what came back.            *)
NoPathOp ==
    [op |-> "none", path |-> << >>, address |-> NoAddress, nHops |-> None,
     nSwap |-> None, halfPath |-> FALSE, defaultNHops |-> None,
     startAt |-> 0, endAt |-> 0, err |-> "none", path1 |-> << >>,
     path2 |-> << >>, route |-> << >>, swapAt |-> None]

(* ---------------------------- processes -------------------------------- *)
Idle ==
    [pc |-> "idle", kind |-> "none", forcePool |-> FALSE, noPool |-> FALSE,
     lazyPool |-> FALSE, warnIfLost |-> TRUE, routing |-> "r1",
     msgs |-> {}, toPool |-> {}, pooled |-> {}, handles |-> {},
     newHandle |-> 0, pmRet |-> "none", opEntry |-> 0, opDone |-> FALSE,
     surbs |-> << >>, idx |-> 1, now |-> 0, logOpen |-> FALSE,
     surb |-> "none", usedAtStart |-> {},
     listed |-> {}, snapshot |-> {}, todo |-> {}, group |-> {},
     failed |-> {}, sent |-> {},
     key |-> "none", pw |-> "none", prompts |-> 0, loadErr |-> "none",
     cwd |-> "home",
     exc |-> "none", result |-> "none", invoked |-> FALSE, lost |-> FALSE,
     handed |-> {}]

(* No ClientDirectory is being constructed.                                 *)
NoLoadOp == [pc |-> "idle", rescans |-> 0, firstRead |-> "none",
             secondRead |-> "none", err |-> "none"]

InitBase ==
    /\ proc = [p \in Procs |-> Idle]
    /\ lockCount = [p \in Procs |-> 0]
    /\ pool = [h \in Handles |-> NoFile]
    /\ keyFile = AbsentKeyFile
    /\ clock = StartTime
    /\ ticks = 0
    /\ nextMsg = 1
    /\ delivered = {}
    /\ built = [s \in Surbs |-> 0]
    /\ sendBegun = {}
    /\ imported = [f \in FileNames |-> NoFile]
    /\ keystore = NoKeystore
    /\ lastOp = NoOp
    /\ dirOps = 0
    /\ pathOp = NoPathOp
    /\ loadOp = NoLoadOp

(* No directory has been downloaded yet.                                    *)
InitCommon ==
    /\ InitBase
    /\ dirGz = NoFile
    /\ cacheFile = NoFile

(* A fresh state directory.                                                 *)
Init ==
    /\ InitCommon
    /\ surbLog = [d \in Cwds |->
                    [used |-> {}, lastCleaned |-> [kind |-> "none", val |-> 0]]]

(* SURB logs that are each one of LastCleanedOnDisk.                        *)
InitSurb ==
    /\ InitCommon
    /\ \E lc \in LastCleanedOnDisk :
          surbLog = [d \in Cwds |-> [used |-> {}, lastCleaned |-> lc]]

Set(p, r) == proc' = [proc EXCEPT ![p] = r]

(* ------------------------- command entry ------------------------------- *)
(* runClient -> sendForwardMessage(address, payload, path1, path2,          *)
(* forcePool, forceNoPool); runClient refuses --pool with --no-pool.        *)
StartForward(p, fp, np, r) ==
    /\ proc[p].pc = "idle"
    /\ nextMsg <= MaxMsgs
    /\ ~(fp /\ np)
    /\ Set(p, [Idle EXCEPT !.kind = "forward", !.forcePool = fp, !.noPool = np,
                           !.routing = r, !.msgs = {nextMsg},
                           !.pc = IF fp THEN "pm_lock" ELSE "sm_start",
                           !.pmRet = IF fp THEN "done" ELSE "none"])
    /\ nextMsg' = nextMsg + 1
    /\ UNCHANGED <<dirVars, pathOp, loadOp, lockCount, pool, surbLog, keyFile, clock, ticks, delivered,
                   built, sendBegun>>

(* sendMessages(msgList, routingInfo, lazyPool=1) called directly.          *)
StartLazy(p, r) ==
    /\ proc[p].pc = "idle"
    /\ nextMsg <= MaxMsgs
    /\ Set(p, [Idle EXCEPT !.kind = "lazy", !.lazyPool = TRUE, !.routing = r,
                           !.msgs = {nextMsg}, !.pc = "sm_start"])
    /\ nextMsg' = nextMsg + 1
    /\ UNCHANGED <<dirVars, pathOp, loadOp, lockCount, pool, surbLog, keyFile, clock, ticks, delivered,
                   built, sendBegun>>

(* runClient -> sendReplyMessage(payload, servers, surbList, forcePool,     *)
(* forceNoPool); generateReplyMessage reads now = time.time() on entry.     *)
StartReply(p, d, sl, fp, np, r) ==
    /\ proc[p].pc = "idle"
    /\ nextMsg <= MaxMsgs
    /\ ~(fp /\ np)
    /\ Set(p, [Idle EXCEPT !.kind = "reply", !.forcePool = fp, !.noPool = np,
                           !.routing = r, !.surbs = sl, !.now = clock,
                           !.cwd = d,
                           !.pc = "sr_lock"])
    /\ UNCHANGED <<dirVars, pathOp, loadOp, lockCount, pool, surbLog, keyFile, clock, ticks, nextMsg,
                   delivered, built, sendBegun>>

(* flushPool command -> MixminionClient.flushPool.                          *)
StartFlush(p) ==
    /\ proc[p].pc = "idle"
    /\ Set(p, [Idle EXCEPT !.kind = "flush", !.noPool = TRUE,
                           !.warnIfLost = FALSE, !.pc = "fl_lock"])
    /\ UNCHANGED <<dirVars, pathOp, loadOp, lockCount, pool, surbLog, keyFile, clock, ticks, nextMsg,
                   delivered, built, sendBegun>>

(* generateSURB command -> generateReplyBlock -> getSURBKey(create=1).      *)
StartGenSurb(p) ==
    /\ proc[p].pc = "idle"
    /\ Set(p, [Idle EXCEPT !.kind = "gensurb", !.pc = "gs_check"])
    /\ UNCHANGED <<dirVars, pathOp, loadOp, lockCount, pool, surbLog, keyFile, clock, ticks, nextMsg,
                   delivered, built, sendBegun>>

(* --------------------------- poolMessages ------------------------------ *)
(* "handles = []; try: clientLock()".                                       *)
PmLock(p) ==
    /\ proc[p].pc = "pm_lock"
    /\ clientLock(p)
    /\ Set(p, [proc[p] EXCEPT !.toPool = proc[p].msgs, !.pooled = {},
                              !.pc = IF proc[p].msgs = {} THEN "pm_unlock"
                                     ELSE "pp_lock"])
    /\ UNCHANGED <<dirVars, pathOp, loadOp, pool, surbLog, keyFile, clock, ticks, nextMsg, delivered,
                   built, sendBegun>>

(* ClientPool.poolPacket, first statement: clientLock().                    *)
PpLock(p) ==
    /\ proc[p].pc = "pp_lock"
    /\ clientLock(p)
    /\ Set(p, [proc[p] EXCEPT !.opEntry = lockCount[p], !.pc = "pp_open"])
    /\ UNCHANGED <<dirVars, pathOp, loadOp, pool, surbLog, keyFile, clock, ticks, nextMsg, delivered,
                   built, sendBegun>>

(* prng.openNewFile(dir, "pkt_", 1): creates a file under a random name     *)
(* that does not exist yet.  File names are only ever compared for          *)
(* equality, so the free name taken is the least one.                       *)
PpOpen(p, h) ==
    /\ proc[p].pc = "pp_open"
    /\ ~packetExists(h)
    /\ \A g \in Handles : g < h => packetExists(g)
    /\ pool' = [pool EXCEPT ![h] = PartialFile]
    /\ Set(p, [proc[p] EXCEPT !.newHandle = h, !.pc = "pp_dump"])
    /\ UNCHANGED <<dirVars, pathOp, loadOp, lockCount, surbLog, keyFile, clock, ticks, nextMsg,
                   delivered, built, sendBegun>>

(* cPickle.dump(("PACKET-0", message, firstHop, previousMidnight(now)), f); *)
(* f.close(); return handle -- with no clientUnlock().                      *)
PpDump(p) ==
    /\ proc[p].pc = "pp_dump"
    /\ LET m == Min(proc[p].toPool)
           rest == proc[p].toPool \ {m}
       IN  /\ pool' = [pool EXCEPT ![proc[p].newHandle] =
                           PacketFile(m, proc[p].routing, clock)]
           /\ Set(p, [proc[p] EXCEPT !.toPool = rest,
                         !.pooled = @ \cup {proc[p].newHandle},
                         !.opDone = TRUE,
                         !.pc = IF rest = {} THEN "pm_unlock" ELSE "pp_lock"])
    /\ UNCHANGED <<dirVars, pathOp, loadOp, lockCount, surbLog, keyFile, clock, ticks, nextMsg,
                   delivered, built, sendBegun>>

(* "finally: clientUnlock()" and "return handles".                          *)
PmUnlock(p) ==
    /\ proc[p].pc = "pm_unlock"
    /\ clientUnlock(p)
    /\ Set(p, [proc[p] EXCEPT
                 !.handles = IF proc[p].pmRet = "sm_transport"
                             THEN proc[p].pooled ELSE @,
                 !.result = IF proc[p].pmRet = "done" THEN "ok" ELSE @,
                 !.opDone = FALSE,
                 !.pc = proc[p].pmRet])
    /\ UNCHANGED <<dirVars, pathOp, loadOp, pool, surbLog, keyFile, clock, ticks, nextMsg, delivered,
                   built, sendBegun>>

(* --------------------------- sendMessages ------------------------------ *)
SmStart(p) ==
    /\ proc[p].pc = "sm_start"
    /\ IF PoolFirst(proc[p].noPool, proc[p].lazyPool)
       THEN Set(p, [proc[p] EXCEPT !.pc = "pm_lock", !.pmRet = "sm_transport"])
       ELSE Set(p, [proc[p] EXCEPT !.handles = {}, !.pc = "sm_transport"])
    /\ UNCHANGED <<dirVars, pathOp, loadOp, lockCount, pool, surbLog, keyFile, clock, ticks, nextMsg,
                   delivered, built, sendBegun>>

(* mixminion.MMTPClient.sendMessages(routingInfo, msgList, timeout) and,    *)
(* when it raises, the bare "except:" branch up to its "raise".             *)
SmTransport(p, out) ==
    /\ proc[p].pc = "sm_transport"
    /\ sendBegun' = IF ~proc[p].noPool /\ ~proc[p].lazyPool
                    THEN sendBegun \cup proc[p].msgs ELSE sendBegun
    /\ IF out = "ok"
       THEN /\ delivered' = delivered \cup proc[p].msgs
            /\ Set(p, [proc[p] EXCEPT
                         !.invoked = TRUE,
                         !.handed = @ \cup proc[p].msgs,
                         !.sent = IF proc[p].kind = "flush"
                                  THEN @ \cup {proc[p].routing} ELSE @,
                         !.pc = "sm_rm_lock"])
       ELSE /\ delivered' = delivered
            /\ LET act == FailureAction(proc[p].noPool, proc[p].lazyPool,
                                        proc[p].warnIfLost)
               IN  Set(p, [proc[p] EXCEPT
                             !.invoked = TRUE, !.exc = out,
                             !.lost = (act = "lost"),
                             !.pmRet = IF act = "pool" THEN "sm_raise" ELSE @,
                             !.pc = IF act = "pool" THEN "pm_lock"
                                    ELSE "sm_raise"])
    /\ UNCHANGED <<dirVars, pathOp, loadOp, lockCount, pool, surbLog, keyFile, clock, ticks, nextMsg,
                   built>>

(* The re-raise of the transport's exception, a MixProtocolError turned     *)
(* into a UIError; within flushPool a MixError is caught and logged.        *)
SmRaise(p) ==
    /\ proc[p].pc = "sm_raise"
    /\ LET e == RaisedAs(proc[p].exc)
           next == AfterSendError(proc[p].kind, e)
       IN  IF next = "done"
           THEN Set(p, [proc[p] EXCEPT !.result = e, !.pc = "done"])
           ELSE Set(p, [proc[p] EXCEPT !.exc = "none", !.failed = @ \cup
                                          {proc[p].routing}, !.pc = next])
    /\ UNCHANGED <<dirVars, pathOp, loadOp, lockCount, pool, surbLog, keyFile, clock, ticks, nextMsg,
                   delivered, built, sendBegun>>

(* After a successful send: "try: clientLock()".                            *)
SmRmLock(p) ==
    /\ proc[p].pc = "sm_rm_lock"
    /\ clientLock(p)
    /\ Set(p, [proc[p] EXCEPT !.pc = "sm_rm"])
    /\ UNCHANGED <<dirVars, pathOp, loadOp, pool, surbLog, keyFile, clock, ticks, nextMsg, delivered,
                   built, sendBegun>>

(* The removal loop over handles and "finally: clientUnlock()".             *)
SmRemove(p) ==
    /\ proc[p].pc = "sm_rm"
    /\ pool' = RemoveHandles(pool, proc[p].handles)
    /\ clientUnlock(p)
    /\ IF proc[p].kind = "flush"
       THEN Set(p, [proc[p] EXCEPT !.pc = "fl_rm_lock"])
       ELSE Set(p, [proc[p] EXCEPT !.result = "ok", !.pc = "done"])
    /\ UNCHANGED <<dirVars, pathOp, loadOp, surbLog, keyFile, clock, ticks, nextMsg, delivered, built,
                   sendBegun>>

(* ----------------------- generateReplyMessage -------------------------- *)
(* clientLock(), taken before the SURB log is opened.                       *)
SrLock(p) ==
    /\ proc[p].pc = "sr_lock"
    /\ clientLock(p)
    /\ Set(p, [proc[p] EXCEPT !.pc = "sr_open"])
    /\ UNCHANGED <<dirVars, pathOp, loadOp, pool, surbLog, keyFile, clock, ticks, nextMsg, delivered,
                   built, sendBegun>>

(* surbLog = SURBLog(self.surbLogFilename), outside the try block: the      *)
(* anydbm file is opened, LAST_CLEANED is read, and the log is cleaned when *)
(* it was last cleaned more than a day ago.  An exception raised here       *)
(* leaves generateReplyMessage with the lock taken and the file open.       *)
SrOpen(p) ==
    /\ proc[p].pc = "sr_open"
    /\ LET log == surbLog[proc[p].cwd]
           err == OpenError(log)
       IN  IF err # "none"
           THEN /\ Set(p, [proc[p] EXCEPT !.logOpen = TRUE, !.result = err,
                                          !.usedAtStart = log.used,
                                          !.pc = "done"])
                /\ UNCHANGED surbLog
           ELSE /\ surbLog' = [surbLog EXCEPT ![proc[p].cwd] =
                                  IF NeedsClean(log, clock)
                                  THEN SURBLogClean(log, clock) ELSE log]
                /\ Set(p, [proc[p] EXCEPT !.logOpen = TRUE, !.idx = 1,
                                          !.usedAtStart = log.used,
                                          !.pc = "sr_iter"])
    /\ UNCHANGED <<dirVars, pathOp, loadOp, lockCount, pool, keyFile, clock, ticks, nextMsg, delivered,
                   built, sendBegun>>

(* One iteration of "for surb in surbList": skip the block, or build the    *)
(* reply packet with it, mark it used and return; after the last block,     *)
(* raise MixError("No usable SURBs found.").                                *)
SrIter(p) ==
    /\ proc[p].pc = "sr_iter"
    /\ IF proc[p].idx > Len(proc[p].surbs)
       THEN /\ Set(p, [proc[p] EXCEPT !.exc = "MixError", !.pc = "sr_close"])
            /\ UNCHANGED <<dirVars, pathOp, loadOp, surbLog, built, nextMsg>>
       ELSE LET s == proc[p].surbs[proc[p].idx]
                log == surbLog[proc[p].cwd]
            IN  IF SkipReason(log, s, proc[p].now) # "usable"
                THEN /\ Set(p, [proc[p] EXCEPT !.idx = @ + 1])
                     /\ UNCHANGED <<dirVars, pathOp, loadOp, surbLog, built, nextMsg>>
                ELSE /\ built' = [built EXCEPT ![s] = @ + 1]
                     /\ surbLog' = [surbLog EXCEPT ![proc[p].cwd] =
                                       markSURBUsed(log, s)]
                     /\ nextMsg' = nextMsg + 1
                     /\ Set(p, [proc[p] EXCEPT !.surb = s, !.msgs = {nextMsg},
                                               !.pc = "sr_close"])
    /\ UNCHANGED <<dirVars, pathOp, loadOp, lockCount, pool, keyFile, clock, ticks, delivered,
                   sendBegun>>

(* "finally: surbLog.close()".                                              *)
SrClose(p) ==
    /\ proc[p].pc = "sr_close"
    /\ Set(p, [proc[p] EXCEPT !.logOpen = FALSE, !.pc = "sr_unlock"])
    /\ UNCHANGED <<dirVars, pathOp, loadOp, lockCount, pool, surbLog, keyFile, clock, ticks, nextMsg,
                   delivered, built, sendBegun>>

(* "clientUnlock()" of the finally block; then either the MixError leaves   *)
(* sendReplyMessage, or generateReplyMessage returns, its locals are gone,  *)
(* and the packet goes to poolMessages or sendMessages.                     *)
SrUnlock(p) ==
    /\ proc[p].pc = "sr_unlock"
    /\ clientUnlock(p)
    /\ LET ret == [proc[p] EXCEPT !.surbs = << >>, !.idx = 1, !.now = 0,
                                  !.usedAtStart = {}]
       IN  IF proc[p].exc = "MixError"
           THEN Set(p, [proc[p] EXCEPT !.result = "NoUsableSurbs",
                                       !.pc = "done"])
           ELSE IF proc[p].forcePool
           THEN Set(p, [ret EXCEPT !.pc = "pm_lock", !.pmRet = "done"])
           ELSE Set(p, [ret EXCEPT !.pc = "sm_start"])
    /\ UNCHANGED <<dirVars, pathOp, loadOp, pool, surbLog, keyFile, clock, ticks, nextMsg, delivered,
                   built, sendBegun>>

(* ------------------------------ flushPool ------------------------------ *)
FlLock(p) ==
    /\ proc[p].pc = "fl_lock"
    /\ clientLock(p)
    /\ Set(p, [proc[p] EXCEPT !.pc = "fl_handles"])
    /\ UNCHANGED <<dirVars, pathOp, loadOp, pool, surbLog, keyFile, clock, ticks, nextMsg, delivered,
                   built, sendBegun>>

(* ClientPool.getHandles: clientLock(), os.listdir, return -- with no       *)
(* clientUnlock().                                                          *)
FlGetHandles(p) ==
    /\ proc[p].pc = "fl_handles"
    /\ clientLock(p)
    /\ Set(p, [proc[p] EXCEPT !.opEntry = lockCount[p], !.opDone = TRUE,
                              !.listed = ListedHandles, !.pc = "fl_load"])
    /\ UNCHANGED <<dirVars, pathOp, loadOp, pool, surbLog, keyFile, clock, ticks, nextMsg, delivered,
                   built, sendBegun>>

(* The getPacket loop building messagesByServer, and "finally:              *)
(* clientUnlock()".  open raises IOError on a listed file that is no longer *)
(* there; cPickle.load raises EOFError on a file that was created but       *)
(* never written.                                                           *)
FlLoad(p) ==
    /\ proc[p].pc = "fl_load"
    /\ clientUnlock(p)
    /\ IF \E h \in proc[p].listed : pool[h].kind = "none"
       THEN Set(p, [proc[p] EXCEPT !.opDone = FALSE, !.result = "IOError",
                                   !.pc = "done"])
       ELSE IF \E h \in proc[p].listed : pool[h].kind = "partial"
       THEN Set(p, [proc[p] EXCEPT !.opDone = FALSE, !.result = "EOFError",
                                   !.pc = "done"])
       ELSE LET snap == { <<pool[h].msg, h, pool[h].routing>> :
                             h \in proc[p].listed }
            IN  Set(p, [proc[p] EXCEPT !.opDone = FALSE, !.snapshot = snap,
                                       !.todo = { e[3] : e \in snap },
                                       !.pc = "fl_next"])
    /\ UNCHANGED <<dirVars, pathOp, loadOp, pool, surbLog, keyFile, clock, ticks, nextMsg, delivered,
                   built, sendBegun>>

(* "for routing in messagesByServer.keys()": the next group goes to         *)
(* sendMessages(msgs, routing, noPool=1, warnIfLost=0).                     *)
FlNext(p, r) ==
    /\ proc[p].pc = "fl_next"
    /\ r \in proc[p].todo
    /\ LET grp == { e \in proc[p].snapshot : e[3] = r }
       IN  Set(p, [proc[p] EXCEPT !.todo = @ \ {r}, !.group = grp,
                                  !.routing = r,
                                  !.msgs = { e[1] : e \in grp },
                                  !.pc = "sm_start"])
    /\ UNCHANGED <<dirVars, pathOp, loadOp, lockCount, pool, surbLog, keyFile, clock, ticks, nextMsg,
                   delivered, built, sendBegun>>

(* The loop is over: "Pool flushed".                                        *)
FlEnd(p) ==
    /\ proc[p].pc = "fl_next"
    /\ proc[p].todo = {}
    /\ Set(p, [proc[p] EXCEPT !.result = "ok", !.pc = "done"])
    /\ UNCHANGED <<dirVars, pathOp, loadOp, lockCount, pool, surbLog, keyFile, clock, ticks, nextMsg,
                   delivered, built, sendBegun>>

(* After sendMessages returned: "try: clientLock()".                        *)
FlRmLock(p) ==
    /\ proc[p].pc = "fl_rm_lock"
    /\ clientLock(p)
    /\ Set(p, [proc[p] EXCEPT !.pc = "fl_rm"])
    /\ UNCHANGED <<dirVars, pathOp, loadOp, pool, surbLog, keyFile, clock, ticks, nextMsg, delivered,
                   built, sendBegun>>

(* The removal loop over the group's handles, "finally: clientUnlock()".    *)
FlRemove(p) ==
    /\ proc[p].pc = "fl_rm"
    /\ pool' = RemoveHandles(pool, { e[2] : e \in proc[p].group })
    /\ clientUnlock(p)
    /\ Set(p, [proc[p] EXCEPT !.pc = "fl_next"])
    /\ UNCHANGED <<dirVars, pathOp, loadOp, surbLog, keyFile, clock, ticks, nextMsg, delivered, built,
                   sendBegun>>

(* ------------------- generateReplyBlock / keyring ---------------------- *)
(* ClientKeyring._getKey: "if os.path.exists(fn)" goes on to _checkMagic;   *)
(* "elif create" draws a fresh key with trng and asks for a new password.   *)
GsCheck(p, k) ==
    /\ proc[p].pc = "gs_check"
    /\ IF keyFile.kind # "absent"
       THEN Set(p, [proc[p] EXCEPT !.pc = "gs_magic"])
       ELSE Set(p, [proc[p] EXCEPT !.key = k, !.pc = "gs_newpw"])
    /\ UNCHANGED <<dirVars, pathOp, loadOp, lockCount, pool, surbLog, keyFile, clock, ticks, nextMsg,
                   delivered, built, sendBegun>>

(* ClientKeyring._checkMagic: MixError unless the file starts with the      *)
(* magic; a file that was opened for writing and never written is empty.    *)
GsCheckMagic(p) ==
    /\ proc[p].pc = "gs_magic"
    /\ IF keyFile.kind \in {"key", "short"}
       THEN Set(p, [proc[p] EXCEPT !.pc = "gs_prompt"])
       ELSE Set(p, [proc[p] EXCEPT !.result = "MixError", !.pc = "done"])
    /\ UNCHANGED <<dirVars, pathOp, loadOp, lockCount, pool, surbLog, keyFile, clock, ticks, nextMsg,
                   delivered, built, sendBegun>>

(* ClientKeyring._load(fn, magic, password): the MixError it raises, if     *)
(* any.  The magic has been tested by _checkMagic.                          *)
loadKeyError(file, w) ==
    IF file.kind # "key" THEN "TooShort"
    ELSE IF file.pw # w THEN "IncorrectPassword"
    ELSE "none"

(* One round of "while 1: p = self._getPassword(which); try: return         *)
(* self._load(fn, magic, p)  except MixError, e: LOG.error(...)": whatever  *)
(* MixError _load raises is logged and the password is asked again.         *)
GsLoad(p, w) ==
    /\ proc[p].pc = "gs_prompt"
    /\ LET e == loadKeyError(keyFile, w)
       IN  IF e = "none"
           THEN Set(p, [proc[p] EXCEPT !.key = keyFile.key, !.result = "ok",
                                       !.loadErr = "none", !.pc = "done"])
           ELSE /\ proc[p].prompts < MaxPrompts
                /\ Set(p, [proc[p] EXCEPT !.prompts = @ + 1, !.loadErr = e])
    /\ UNCHANGED <<dirVars, pathOp, loadOp, lockCount, pool, surbLog, keyFile, clock, ticks, nextMsg,
                   delivered, built, sendBegun>>

(* ClientKeyring._getNewPassword: two prompts, repeated until they agree.   *)
GsNewPassword(p, w1, w2) ==
    /\ proc[p].pc = "gs_newpw"
    /\ IF w1 = w2
       THEN Set(p, [proc[p] EXCEPT !.pw = w1, !.pc = "gs_open"])
       ELSE Set(p, proc[p])
    /\ UNCHANGED <<dirVars, pathOp, loadOp, lockCount, pool, surbLog, keyFile, clock, ticks, nextMsg,
                   delivered, built, sendBegun>>

(* ClientKeyring._save: f = open(fn, 'wb') creates or truncates the file.   *)
GsOpen(p) ==
    /\ proc[p].pc = "gs_open"
    /\ keyFile' = EmptyKeyFile
    /\ Set(p, [proc[p] EXCEPT !.pc = "gs_write"])
    /\ UNCHANGED <<dirVars, pathOp, loadOp, lockCount, pool, surbLog, clock, ticks, nextMsg,
                   delivered, built, sendBegun>>

(* ClientKeyring._save: the writes of magic, salt and encrypted key, and    *)
(* f.close(); _getKey returns the key.                                      *)
GsWrite(p) ==
    /\ proc[p].pc = "gs_write"
    /\ keyFile' = [kind |-> "key", key |-> proc[p].key, pw |-> proc[p].pw]
    /\ Set(p, [proc[p] EXCEPT !.result = "ok", !.pc = "done"])
    /\ UNCHANGED <<dirVars, pathOp, loadOp, lockCount, pool, surbLog, clock, ticks, nextMsg,
                   delivered, built, sendBegun>>

(* The key file is cut short behind its magic, as by a copy that was        *)
(* interrupted or a disk that filled up.                                    *)
KeyFileTruncated ==
    /\ keyFile.kind = "key"
    /\ keyFile' = ShortKeyFile
    /\ UNCHANGED <<dirVars, pathOp, loadOp, proc, lockCount, pool, surbLog,
                   clock, ticks, nextMsg, delivered, built, sendBegun>>

(* ----------------------- environment steps ----------------------------- *)
(* The command has ended and its process exits; the operating system drops  *)
(* whatever file lock the process still holds.                              *)
Exit(p) ==
    /\ proc[p].pc = "done"
    /\ Set(p, Idle)
    /\ lockCount' = [lockCount EXCEPT ![p] = 0]
    /\ UNCHANGED <<dirVars, pathOp, loadOp, pool, surbLog, keyFile, clock, ticks, nextMsg, delivered,
                   built, sendBegun>>

(* The process stops in the middle of a command.                            *)
Crash(p) ==
    /\ proc[p].pc \notin {"idle", "done"}
    /\ Set(p, Idle)
    /\ lockCount' = [lockCount EXCEPT ![p] = 0]
    /\ UNCHANGED <<dirVars, pathOp, loadOp, pool, surbLog, keyFile, clock, ticks, nextMsg, delivered,
                   built, sendBegun>>

Tick(d) ==
    /\ ticks < MaxTicks
    /\ clock' = clock + d
    /\ ticks' = ticks + 1
    /\ UNCHANGED <<dirVars, pathOp, loadOp, proc, lockCount, pool, surbLog, keyFile, nextMsg,
                   delivered, built, sendBegun>>

(* ------------------------ directory commands --------------------------- *)
(* The commands that use the server directory run one after the other in    *)
(* the process DirProc; each builds a ClientDirectory object and works on   *)
(* it.                                                                      *)
DirProc == Min(Procs)

DirReady ==
    /\ keystore.alive
    /\ Acquirable(DirProc)
    /\ dirOps < MaxDirOps
    /\ dirOps' = dirOps + 1

OpDone(name, e) == [NoOp EXCEPT !.op = name, !.err = e]

(* ClientDirectory.__init__: "clientLock(); self.__load(); self.clean()"    *)
(* and "finally: clientUnlock()".                                           *)
DirInit ==
    /\ ~keystore.alive
    /\ proc[DirProc].pc = "idle"
    /\ Acquirable(DirProc)
    /\ dirOps < MaxDirOps
    /\ dirOps' = dirOps + 1
    /\ \E order \in ListDirOrders(imported) :
         LET k0 == [NoKeystore EXCEPT !.alive = TRUE]
             r1 == load(k0, cacheFile, dirGz, imported, order)
             r2 == IF r1.err = "none"
                   THEN clean(r1.ks, r1.cache, r1.imp, clock) ELSE r1
         IN  /\ keystore' = IF r2.err = "none" THEN r2.ks ELSE NoKeystore
             /\ cacheFile' = r2.cache
             /\ imported' = r2.imp
             /\ lastOp' = OpDone("init", r2.err)
    /\ UNCHANGED <<pathOp, loadOp, proc, lockCount, pool, surbLog, keyFile, clock, ticks,
                   nextMsg, delivered, built, sendBegun, dirGz>>

(* importServer: keystore.importFromFile(filename) under the lock, a        *)
(* MixError being caught and printed.  The new file takes a free name.      *)
DirImport(info) ==
    /\ DirReady
    /\ \E f \in FileNames : imported[f].kind = "none"
    /\ LET fn == Min({ f \in FileNames : imported[f].kind = "none" })
           r == importFromFile(keystore, cacheFile, imported, info, clock, fn)
       IN  /\ keystore' = r.ks
           /\ cacheFile' = r.cache
           /\ imported' = r.imp
           /\ lastOp' = [OpDone("import", r.err) EXCEPT
                           !.arg = info.digest, !.at = clock]
    /\ UNCHANGED <<pathOp, loadOp, proc, lockCount, pool, surbLog, keyFile, clock, ticks,
                   nextMsg, delivered, built, sendBegun, dirGz>>

(* The common part of the two callers of updateDirectory.                   *)
DirUpdate(name, force, dl) ==
    /\ \E order \in ListDirOrders(imported) :
         LET r == updateDirectory(keystore, cacheFile, dirGz, imported, force,
                                  dl, clock, order)
         IN  /\ keystore' = r.ks
             /\ cacheFile' = r.cache
             /\ dirGz' = r.dgz
             /\ lastOp' = [OpDone(name, r.err) EXCEPT
                             !.force = force,
                             !.upToDate = ~(keystore.lastDownload
                                              < previousMidnight(clock)),
                             !.fetched = r.fetched,
                             !.changed = \/ r.dgz # dirGz
                                         \/ r.cache # cacheFile
                                         \/ r.ks.serverList
                                               # keystore.serverList]
    /\ UNCHANGED <<pathOp, loadOp, proc, lockCount, pool, surbLog, keyFile, clock, ticks,
                   nextMsg, delivered, built, sendBegun, imported>>

(* The update-servers command: "keystore.updateDirectory(forceDownload=1)"  *)
(* under the lock.                                                          *)
DirUpdateServers(dl) ==
    /\ DirReady
    /\ DirUpdate("updateServers", TRUE, dl)

(* CLIArgumentParser.init with wantDownload, for the commands list-servers, *)
(* send and generate-surb: "if self.download != 0:                          *)
(* updateDirectory(forceDownload=self.download)", where self.download is    *)
(* None (no -D option) or 1 (-D yes).                                       *)
DirInitDownload(download, dl) ==
    /\ DirReady
    /\ DirUpdate("initDownload", download, dl)

(* ClientDirectory.expungeByNickname(nickname).                             *)
DirExpunge(nickname) ==
    /\ DirReady
    /\ LET r == expungeByNickname(keystore, cacheFile, imported, nickname)
       IN  /\ keystore' = r.ks
           /\ cacheFile' = r.cache
           /\ imported' = r.imp
           /\ lastOp' = OpDone("expunge", r.err)
    /\ UNCHANGED <<pathOp, loadOp, proc, lockCount, pool, surbLog, keyFile, clock, ticks,
                   nextMsg, delivered, built, sendBegun, dirGz>>

(* ClientDirectory.rescan(force).                                           *)
DirRescan(force) ==
    /\ DirReady
    /\ \E order \in ListDirOrders(imported) :
         LET r == rescan(keystore, dirGz, imported, force, order)
         IN  /\ keystore' = r.ks
             /\ cacheFile' = r.cache
             /\ lastOp' = [OpDone("rescan", r.err) EXCEPT !.force = force]
    /\ UNCHANGED <<pathOp, loadOp, proc, lockCount, pool, surbLog, keyFile, clock, ticks,
                   nextMsg, delivered, built, sendBegun, dirGz, imported>>

(* ClientDirectory.clean() with now = time.time().                          *)
DirClean ==
    /\ DirReady
    /\ LET r == clean(keystore, cacheFile, imported, clock)
       IN  /\ keystore' = r.ks
           /\ cacheFile' = r.cache
           /\ imported' = r.imp
           /\ lastOp' = OpDone("clean", r.err)
    /\ UNCHANGED <<pathOp, loadOp, proc, lockCount, pool, surbLog, keyFile, clock, ticks,
                   nextMsg, delivered, built, sendBegun, dirGz>>

(* The command ends and its ClientDirectory object is gone.                 *)
DirExit ==
    /\ keystore.alive
    /\ keystore' = NoKeystore
    /\ lastOp' = NoOp
    /\ UNCHANGED <<pathOp, loadOp, proc, lockCount, pool, surbLog, keyFile, clock, ticks,
                   nextMsg, delivered, built, sendBegun, dirGz, imported,
                   cacheFile, dirOps>>

(* --------------------------- path commands ----------------------------- *)
(* The state directory of a user who has run update-servers before: dir.gz  *)
(* and the cache are what downloadDirectory left for one of PathDownloads.  *)
InitPath ==
    /\ InitBase
    /\ surbLog = [d \in Cwds |->
                    [used |-> {}, lastCleaned |-> [kind |-> "none", val |-> 0]]]
    /\ \E dl \in PathDownloads :
         LET r == downloadDirectory([NoKeystore EXCEPT !.alive = TRUE],
                                    NoFile, NoFile,
                                    [f \in FileNames |-> NoFile], dl,
                                    StartTime - DaySeconds, << >>)
         IN  /\ dirGz = r.dgz
             /\ cacheFile = r.cache

PathDone(name, str, address, nHops, nSwap, halfPath, defaultNHops, endAt, r) ==
    [op |-> name, path |-> str, address |-> address, nHops |-> nHops,
     nSwap |-> nSwap, halfPath |-> halfPath, defaultNHops |-> defaultNHops,
     startAt |-> clock, endAt |-> endAt,
     err |-> r.err, path1 |-> r.path1, path2 |-> r.path2, route |-> r.route,
     swapAt |-> None]

(* The value of --swap-at as the parser keeps it: "self.swapAt = int(v)-1", *)
(* None when the option is absent.                                          *)
parseSwapAt_NoOffset(opt) == opt

parseSwapAt(opt) == IF opt.none THEN None ELSE Some(opt.val - 1)

(* A command resolves its path once, after the directory has been loaded.   *)
PathReady == keystore.alive /\ pathOp.op = "none"

PathUnchanged ==
    UNCHANGED <<dirVars, loadOp, proc, lockCount, pool, surbLog, keyFile, clock,
                ticks, nextMsg, delivered, built, sendBegun>>

(* CLIArgumentParser.parsePath for "send -t <address>": the options -P, -H  *)
(* and --swap-at ("self.swapAt = int(v)-1"), defHops from the               *)
(* configuration, and the default times.                                    *)
PathForward ==
    /\ PathReady
    /\ \E str \in PathStrings, address \in Addresses, nHops \in HopOptions,
          swapAt \in SwapOptions :
         LET nSwap == parseSwapAt(swapAt)
             endAt == clock + DEFAULT_REQUIRED_LIFETIME
         IN  \E r \in parsePath(keystore, str, address, nHops, nSwap, clock,
                                endAt, FALSE, Some(PathLength)) :
                pathOp' = [PathDone("forward", str, address, nHops, nSwap,
                                    FALSE, Some(PathLength), endAt, r)
                             EXCEPT !.swapAt = swapAt]
    /\ PathUnchanged

(* CLIArgumentParser.parsePath for "send -R <reply block>": parsePathLeg    *)
(* without an address.                                                      *)
PathReplyBlock ==
    /\ PathReady
    /\ \E str \in PathStrings, nHops \in HopOptions :
         LET endAt == clock + DEFAULT_REQUIRED_LIFETIME
         IN  \E r \in parsePathLeg(keystore, str, nHops, NoAddress, clock,
                                   endAt, Some(PathLength)) :
                pathOp' = PathDone("replyBlock", str, NoAddress, nHops,
                                   Some(-1), TRUE, Some(PathLength), endAt, r)
    /\ PathUnchanged

(* CLIArgumentParser.parsePath for generate-surb: parsePathLeg with the     *)
(* address, until the midnight that ends the SURB's lifetime.               *)
PathSurb ==
    /\ PathReady
    /\ \E str \in PathStrings, address \in Addresses, nHops \in HopOptions,
          lifetime \in SurbLifetimes :
         LET endAt == succeedingMidnight(clock + lifetime * DaySeconds)
         IN  \E r \in parsePathLeg(keystore, str, nHops, address, clock,
                                   endAt, Some(SURBPathLength)) :
                pathOp' = PathDone("surb", str, address, nHops, Some(-1),
                                   TRUE, Some(SURBPathLength), endAt, r)
    /\ PathUnchanged

(* parsePath called with its defaults: no hop count, no swap point, no      *)
(* defaultNHops.                                                            *)
PathDirect ==
    /\ PathReady
    /\ \E str \in DirectPaths, address \in Addresses :
         LET endAt == clock + DEFAULT_REQUIRED_LIFETIME
         IN  \E r \in parsePath(keystore, str, address, None, None, clock,
                                endAt, FALSE, None) :
                pathOp' = PathDone("direct", str, address, None, None, FALSE,
                                   None, endAt, r)
    /\ PathUnchanged

(* The steps of poolMessages and sendMessages, shared by all flows.        *)
PoolSendStep ==
    \/ \E p \in Procs : PmLock(p)
    \/ \E p \in Procs : PpLock(p)
    \/ \E p \in Procs, h \in Handles : PpOpen(p, h)
    \/ \E p \in Procs : PpDump(p)
    \/ \E p \in Procs : PmUnlock(p)
    \/ \E p \in Procs : SmStart(p)
    \/ \E p \in Procs, out \in TransportOutcomes : SmTransport(p, out)
    \/ \E p \in Procs : SmRaise(p)
    \/ \E p \in Procs : SmRmLock(p)
    \/ \E p \in Procs : SmRemove(p)
    \/ \E p \in Procs : Exit(p)
    \/ \E p \in Procs : Crash(p)

(* The send, pool and flush-pool commands, run by concurrent processes.    *)
Next ==
    \/ \E p \in Procs, fp \in BOOLEAN, np \in BOOLEAN, r \in Routings :
           StartForward(p, fp, np, r)
    \/ \E p \in Procs, r \in Routings : StartLazy(p, r)
    \/ \E p \in Procs : StartFlush(p)
    \/ \E p \in Procs : FlLock(p)
    \/ \E p \in Procs : FlGetHandles(p)
    \/ \E p \in Procs : FlLoad(p)
    \/ \E p \in Procs, r \in Routings : FlNext(p, r)
    \/ \E p \in Procs : FlEnd(p)
    \/ \E p \in Procs : FlRmLock(p)
    \/ \E p \in Procs : FlRemove(p)
    \/ PoolSendStep

Spec == Init /\ [][Next]_vars

(* The reply side: successive send commands with reply blocks, while the    *)
(* clock advances.                                                          *)
NextSurb ==
    \/ \E p \in ReplyProcs, d \in HomeCwds, sl \in SurbLists,
          fp \in BOOLEAN, np \in BOOLEAN, r \in ReplyRoutings :
           StartReply(p, d, sl, fp, np, r)
    \/ \E p \in ReplyProcs : SrLock(p)
    \/ \E p \in ReplyProcs : SrOpen(p)
    \/ \E p \in ReplyProcs : SrIter(p)
    \/ \E p \in ReplyProcs : SrClose(p)
    \/ \E p \in ReplyProcs : SrUnlock(p)
    \/ \E d \in TickSteps : Tick(d)
    \/ PoolSendStep

SpecSurb == InitSurb /\ [][NextSurb]_vars

(* The reply side again, with "send --no-pool -R ..." commands run from     *)
(* any working directory.                                                   *)
NextCwd ==
    \/ \E p \in ReplyProcs, d \in Cwds, sl \in SurbLists,
          r \in ReplyRoutings : StartReply(p, d, sl, FALSE, TRUE, r)
    \/ \E p \in ReplyProcs : SrLock(p)
    \/ \E p \in ReplyProcs : SrOpen(p)
    \/ \E p \in ReplyProcs : SrIter(p)
    \/ \E p \in ReplyProcs : SrClose(p)
    \/ \E p \in ReplyProcs : SrUnlock(p)
    \/ \E p \in ReplyProcs : SmStart(p)
    \/ \E p \in ReplyProcs, out \in TransportOutcomes : SmTransport(p, out)
    \/ \E p \in ReplyProcs : SmRaise(p)
    \/ \E p \in ReplyProcs : SmRmLock(p)
    \/ \E p \in ReplyProcs : SmRemove(p)
    \/ \E p \in ReplyProcs : Exit(p)
    \/ \E p \in ReplyProcs : Crash(p)
    \/ \E d \in TickSteps : Tick(d)

SpecCwd == InitSurb /\ [][NextCwd]_vars

(* The keyring: generate-surb commands run by concurrent processes.         *)
NextKey ==
    \/ \E p \in Procs : StartGenSurb(p)
    \/ \E p \in Procs, k \in Keys : GsCheck(p, k)
    \/ \E p \in Procs : GsCheckMagic(p)
    \/ \E p \in Procs, w \in Passwords : GsLoad(p, w)
    \/ \E p \in Procs, w1 \in Passwords, w2 \in Passwords :
           GsNewPassword(p, w1, w2)
    \/ \E p \in Procs : GsOpen(p)
    \/ \E p \in Procs : GsWrite(p)
    \/ KeyFileTruncated
    \/ \E p \in Procs : Exit(p)
    \/ \E p \in Procs : Crash(p)

SpecKey == Init /\ [][NextKey]_vars

(* The server directory: successive commands that load, fill, update and    *)
(* clean it, while the clock advances.                                      *)
NextDir ==
    \/ DirInit
    \/ \E info \in Descriptors : DirImport(info)
    \/ \E dl \in Downloads : DirUpdateServers(dl)
    \/ \E download \in BOOLEAN, dl \in Downloads :
           DirInitDownload(download, dl)
    \/ \E nickname \in Nicknames : DirExpunge(nickname)
    \/ \E force \in BOOLEAN : DirRescan(force)
    \/ DirClean
    \/ DirExit
    \/ \E d \in TickSteps : Tick(d)

SpecDir == Init /\ [][NextDir]_vars

(* ------------------- constructing a ClientDirectory --------------------- *)
(* ClientDirectory.__init__ step by step: __load, the rescan it may call    *)
(* and the __load that rescan calls, while the cache file is on a disk      *)
(* that other programs write as well.                                       *)

(* What __load does with the cache it reads: rebuild the tables, raise      *)
(* MixFatalError("Recursive error while regenerating cache"), or rescan.    *)
loadOutcome_AlwaysRescan(k, cache) ==
    IF cache.kind = "cache" /\ cache.magic = MAGIC THEN "ok" ELSE "rescan"

loadOutcome(k, cache) ==
    IF cache.kind = "cache" /\ cache.magic = MAGIC THEN "ok"
    ELSE IF k.scanning THEN "fatal"
    ELSE "rescan"

(* A cache file that cPickle cannot load, and one written with another      *)
(* magic string.                                                            *)
CorruptCache == [kind |-> "corrupt"]

WrongMagic(c) == [c EXCEPT !.magic = "ClientKeystore-X"]

(* "self.digestMap = {}; self.__scanning = 0; clientLock()".                *)
LdBegin ==
    /\ loadOp.pc = "idle"
    /\ ~keystore.alive
    /\ proc[DirProc].pc = "idle"
    /\ dirOps < MaxDirOps
    /\ dirOps' = dirOps + 1
    /\ clientLock(DirProc)
    /\ keystore' = [NoKeystore EXCEPT !.alive = TRUE]
    /\ loadOp' = [NoLoadOp EXCEPT !.pc = "load"]
    /\ UNCHANGED <<pathOp, proc, pool, surbLog, keyFile, clock, ticks, nextMsg,
                   delivered, built, sendBegun, dirGz, imported, cacheFile,
                   lastOp>>

(* __load, up to the call of rescan.                                        *)
LdLoad ==
    /\ loadOp.pc = "load"
    /\ LET k1 == IF cacheFile.kind = "cache"
                 THEN unpickled(keystore, cacheFile) ELSE keystore
           out == loadOutcome(keystore, cacheFile)
           seen == IF out = "ok" THEN "good" ELSE "bad"
           op1 == IF loadOp.rescans = 0
                  THEN [loadOp EXCEPT !.firstRead = seen]
                  ELSE [loadOp EXCEPT !.secondRead = seen]
       IN  /\ keystore' = IF out = "ok" THEN rebuildTables(k1) ELSE k1
           /\ loadOp' = IF out = "ok" THEN [op1 EXCEPT !.pc = "clean"]
                        ELSE IF out = "fatal"
                        THEN [op1 EXCEPT !.pc = "unlock",
                                         !.err = "MixFatalError"]
                        ELSE [op1 EXCEPT !.pc = "rescan"]
    /\ UNCHANGED <<pathOp, proc, lockCount, pool, surbLog, keyFile, clock,
                   ticks, nextMsg, delivered, built, sendBegun, dirGz,
                   imported, cacheFile, lastOp, dirOps>>

(* rescan, up to its last statement: the lists are read again, __save       *)
(* writes the cache, "self.__scanning = 1", and __load is called.           *)
LdRescan ==
    /\ loadOp.pc = "rescan"
    /\ loadOp.rescans < MaxRescans
    /\ \E order \in ListDirOrders(imported) :
         LET r == rescan(keystore, dirGz, imported, FALSE, order)
         IN  /\ cacheFile' = r.cache
             /\ keystore' = [unpickled(keystore, r.cache)
                               EXCEPT !.scanning = TRUE]
    /\ loadOp' = [loadOp EXCEPT !.pc = "load", !.rescans = @ + 1]
    /\ UNCHANGED <<pathOp, proc, lockCount, pool, surbLog, keyFile, clock,
                   ticks, nextMsg, delivered, built, sendBegun, dirGz,
                   imported, lastOp, dirOps>>

(* "self.clean()" of __init__.                                              *)
LdClean ==
    /\ loadOp.pc = "clean"
    /\ LET r == clean(keystore, cacheFile, imported, clock)
       IN  /\ keystore' = r.ks
           /\ cacheFile' = r.cache
           /\ imported' = r.imp
    /\ loadOp' = [loadOp EXCEPT !.pc = "unlock"]
    /\ UNCHANGED <<pathOp, proc, lockCount, pool, surbLog, keyFile, clock,
                   ticks, nextMsg, delivered, built, sendBegun, dirGz,
                   lastOp, dirOps>>

(* "finally: clientUnlock()"; a MixFatalError leaves the constructor.       *)
LdUnlock ==
    /\ loadOp.pc = "unlock"
    /\ clientUnlock(DirProc)
    /\ keystore' = IF loadOp.err = "none" THEN keystore ELSE NoKeystore
    /\ loadOp' = [loadOp EXCEPT !.pc = "done"]
    /\ UNCHANGED <<pathOp, proc, pool, surbLog, keyFile, clock, ticks, nextMsg,
                   delivered, built, sendBegun, dirGz, imported, cacheFile,
                   lastOp, dirOps>>

(* The command ends.                                                        *)
LdExit ==
    /\ loadOp.pc = "done"
    /\ keystore' = NoKeystore
    /\ loadOp' = NoLoadOp
    /\ UNCHANGED <<pathOp, proc, lockCount, pool, surbLog, keyFile, clock,
                   ticks, nextMsg, delivered, built, sendBegun, dirGz,
                   imported, cacheFile, lastOp, dirOps>>

(* Another program removes the cache file or writes one that this client    *)
(* cannot read.                                                             *)
CacheDamaged ==
    /\ \E c \in {NoFile, CorruptCache} \cup
                  (IF cacheFile.kind = "cache"
                   THEN {WrongMagic(cacheFile)} ELSE {}) :
          /\ c # cacheFile
          /\ cacheFile' = c
    /\ UNCHANGED <<pathOp, loadOp, proc, lockCount, pool, surbLog, keyFile,
                   clock, ticks, nextMsg, delivered, built, sendBegun, dirGz,
                   imported, keystore, lastOp, dirOps>>

(* A state directory with a directory file, and a cache that is missing,    *)
(* unreadable, of another magic, or good.                                   *)
InitLoad ==
    /\ InitBase
    /\ surbLog = [d \in Cwds |->
                    [used |-> {}, lastCleaned |-> [kind |-> "none", val |-> 0]]]
    /\ \E dl \in PathDownloads :
         LET r == downloadDirectory([NoKeystore EXCEPT !.alive = TRUE],
                                    NoFile, NoFile,
                                    [f \in FileNames |-> NoFile], dl,
                                    StartTime - DaySeconds, << >>)
         IN  /\ dirGz = r.dgz
             /\ cacheFile \in {NoFile, CorruptCache, WrongMagic(r.cache),
                               r.cache}

NextLoad ==
    \/ LdBegin
    \/ LdLoad
    \/ LdRescan
    \/ LdClean
    \/ LdUnlock
    \/ LdExit
    \/ CacheDamaged

(* The steps of the constructor are taken as long as it can take one.       *)
SpecLoad ==
    /\ InitLoad
    /\ [][NextLoad]_vars
    /\ WF_vars(LdLoad)
    /\ WF_vars(LdRescan)
    /\ WF_vars(LdClean)
    /\ WF_vars(LdUnlock)

(* Path selection: commands that resolve a path against the directory that  *)
(* an earlier update-servers installed.                                     *)
NextPath ==
    \/ DirInit
    \/ PathForward
    \/ PathReplyBlock
    \/ PathSurb
    \/ PathDirect

SpecPath == InitPath /\ [][NextPath]_vars

(* -------------------------- looking up servers ------------------------- *)
(* What a caller may hand to getServerInfo: a ServerInfo object, a          *)
(* nickname, the name of a file, or a name that is none of these.           *)
ServerNames ==
    Descriptors \cup DirectoryServers
        \cup { FileDescriptor(f) : f \in ExistingFiles }
        \cup { Name(n) : n \in Nicknames \cup ExistingFiles \cup {"nosuch"} }

(* Addresses whose exit server is named by the address itself, one of them  *)
(* by the name of a descriptor file.                                        *)
ExitAddresses ==
    Addresses \cup { Address("MBOX_TYPE", "fOld"), Address("DROP_TYPE", "fOld"),
                     Address("DROP_TYPE", "c") }

(* A command looks up one server or resolves one path, after the directory *)
(* has been loaded.                                                         *)
ServerReady == PathReady /\ lastOp.op # "getServerInfo"

(* getServerInfo(name, strict=...) with the default times: "startAt =       *)
(* time.time()" and "endAt = startAt + self.DEFAULT_REQUIRED_LIFETIME".     *)
ServerLookup ==
    /\ ServerReady
    /\ \E name \in ServerNames, strict \in BOOLEAN :
         LET endAt == clock + DEFAULT_REQUIRED_LIFETIME
             r == getServerInfo(keystore, name, clock, endAt, strict)
         IN  lastOp' = [OpDone("getServerInfo", r.err) EXCEPT
                          !.arg = name, !.at = clock, !.strict = strict,
                          !.info = r.info]
    /\ UNCHANGED <<pathOp, loadOp, proc, lockCount, pool, surbLog, keyFile,
                   clock, ticks, nextMsg, delivered, built, sendBegun, dirGz,
                   imported, cacheFile, keystore, dirOps>>

(* resolvePath for an address and no path entries of the user's: the exit   *)
(* node of the address is looked up, appended to exitPath and looked up     *)
(* again, strictly, by getPath.                                             *)
ServerExit ==
    /\ ServerReady
    /\ \E address \in ExitAddresses, nHops \in HopOptions :
         LET endAt == clock + DEFAULT_REQUIRED_LIFETIME
         IN  \E r \in resolvePath(keystore, address, << >>, << >>, nHops,
                                  None, clock, endAt, FALSE) :
                pathOp' = PathDone("resolve", << >>, address, nHops, None,
                                   FALSE, None, endAt, r)
    /\ PathUnchanged

NextServer ==
    \/ DirInit
    \/ ServerLookup
    \/ ServerExit
    \/ \E d \in TickSteps : Tick(d)

SpecServer == InitPath /\ [][NextServer]_vars

(* ------------------------------ claims --------------------------------- *)
HoldsPacket(h, m) == pool[h].kind = "packet" /\ pool[h].msg = m

(* The positions of a send-reply command after generateReplyMessage has     *)
(* returned its packet.                                                     *)
AfterGenerate(p) ==
    /\ proc[p].kind = "reply"
    /\ proc[p].surb # "none"
    /\ proc[p].pc \notin {"sr_lock", "sr_open", "sr_iter", "sr_close",
                          "sr_unlock"}

(* C1: no SURB is passed to the reply-packet builder more than once, over   *)
(* any sequence of send-reply commands, log opens, cleans and closes, in    *)
(* one process or in successive processes.                                  *)
C1_NoSurbBuiltTwice == \A s \in Surbs : built[s] <= 1

(* C2: under the default policy every packet is in the pool when the        *)
(* transport is first invoked for it, and from then on, whatever happens to *)
(* the sending process, it is in the pool or was accepted by the transport. *)
C2_PooledBeforeTransport ==
    /\ \A p \in Procs :
         (proc[p].kind \in {"forward", "lazy"} /\ proc[p].pc = "sm_transport"
            /\ ~proc[p].noPool /\ ~proc[p].lazyPool)
         => \A m \in proc[p].msgs : InPool(m)
    /\ \A m \in sendBegun : InPool(m) \/ m \in delivered

(* The sending process is gone after its send began, the packet was not     *)
(* delivered and is in the pool.                                            *)
C2_Witness ==
    \E m \in sendBegun :
        /\ m \notin delivered
        /\ InPool(m)
        /\ \A p \in Procs : proc[p].pc = "idle"

(* C3: every packet that flush-pool found in the pool is, at every later    *)
(* point of that flush and at its end, still in the pool under its handle   *)
(* or accepted by the transport.                                            *)
C3_FlushKeepsUndelivered ==
    \A p \in Procs :
        proc[p].kind = "flush" =>
            \A e \in proc[p].snapshot :
                e[1] \in delivered \/ HoldsPacket(e[2], e[1])

(* A flush has ended with one group delivered and removed and another       *)
(* group, whose send failed, still in the pool.                             *)
C3_Witness ==
    \E p \in Procs :
        /\ proc[p].kind = "flush" /\ proc[p].pc = "done"
        /\ \E e1 \in proc[p].snapshot, e2 \in proc[p].snapshot :
              /\ e1[1] \in delivered /\ ~packetExists(e1[2])
              /\ e2[3] \in proc[p].failed
              /\ e2[1] \notin delivered /\ HoldsPacket(e2[2], e2[1])

(* C4: a lock-taking operation leaves the lock count as it found it: when   *)
(* poolPacket or getHandles has returned the count is the one at its entry, *)
(* and when a command has ended its process does not hold the lock.         *)
C4_LockCountRestored ==
    \A p \in Procs :
        /\ proc[p].opDone => lockCount[p] = proc[p].opEntry
        /\ proc[p].pc = "done" => lockCount[p] = 0

(* C5: flush-pool invokes the transport only while its process does not     *)
(* hold the lock.                                                           *)
C5_FlushSendsUnlocked ==
    \A p \in Procs :
        (proc[p].kind = "flush" /\ proc[p].pc = "sm_transport")
            => lockCount[p] = 0

(* The positions whose next step writes a persistent item.                  *)
WritePositions ==
    {"pp_open", "pp_dump", "sm_rm", "fl_rm", "sr_open", "sr_iter",
     "gs_open", "gs_write"}

(* C6: a process that is about to write a persistent item (pool file, SURB  *)
(* log, key file) holds the lock, so no two processes write at once.        *)
C6_WritesUnderLock ==
    /\ \A p \in Procs :
         proc[p].pc \in WritePositions => lockCount[p] > 0
    /\ \A p, q \in Procs :
         (p # q /\ proc[p].pc \in WritePositions)
            => proc[q].pc \notin WritePositions

(* C7: once send-reply has its packet, the SURB it used is recorded in the  *)
(* log and the log is closed, before the packet goes to the transport or    *)
(* the pool; and a SURB a packet was built with stays recorded, whether the *)
(* process goes on or stops.                                                *)
C7_MarkedBeforeSend ==
    /\ \A p \in Procs :
         AfterGenerate(p) =>
            /\ proc[p].surb \in surbLog[proc[p].cwd].used
            /\ ~proc[p].logOpen
    /\ \A s \in Surbs :
         built[s] > 0 => \E d \in Cwds : s \in surbLog[d].used

(* A reply packet is at the transport, its SURB recorded and the log        *)
(* closed.                                                                  *)
C7_Witness ==
    \E p \in Procs :
        /\ AfterGenerate(p) /\ proc[p].pc = "sm_transport"
        /\ proc[p].surb \in surbLog[proc[p].cwd].used
        /\ ~proc[p].logOpen

(* The first SURB of the list, in order, that is not recorded as used and   *)
(* expires 60 seconds or more after now; 0 when there is none.              *)
FirstEligible(p) ==
    LET ok == { i \in 1..Len(proc[p].surbs) :
                  /\ proc[p].surbs[i] \notin proc[p].usedAtStart
                  /\ SurbTimestamp(proc[p].surbs[i]) - proc[p].now
                        >= ExpiredMargin }
    IN  IF ok = {} THEN 0 ELSE Min(ok)

(* C8: when the loop of send-reply is over, the packet was built with the   *)
(* first unused SURB expiring 60 s or more after now, and the loop ended    *)
(* with NoUsableSurbs only if the list has no such SURB.                    *)
C8_FirstEligibleSurbUsed ==
    \A p \in Procs :
        (proc[p].kind = "reply" /\ proc[p].pc = "sr_close") =>
            IF FirstEligible(p) = 0
            THEN proc[p].exc = "MixError"
            ELSE /\ proc[p].exc = "none"
                 /\ proc[p].surb = proc[p].surbs[FirstEligible(p)]

AllGivenUsed(p) ==
    \A i \in 1..Len(proc[p].surbs) : proc[p].surbs[i] \in proc[p].usedAtStart

(* C9: a send-reply whose SURBs are all recorded as used ends with          *)
(* NoUsableSurbs, without a transport call, a pool write or a new mark.     *)
C9_AllUsedFails ==
    \A p \in Procs :
        (proc[p].kind = "reply" /\ proc[p].pc = "done"
           /\ proc[p].surbs # << >> /\ AllGivenUsed(p)) =>
            /\ proc[p].result = "NoUsableSurbs"
            /\ ~proc[p].invoked
            /\ proc[p].pooled = {}
            /\ proc[p].surb = "none"

(* C10: a default-policy send-forward ends with its pool entry absent when  *)
(* the transport accepted the packet and present when the transport         *)
(* failed; and once flush-pool is done with a group whose send succeeded,   *)
(* the group's entries are gone from the pool.                              *)
C10_PoolAfterSend ==
    /\ \A p \in Procs :
         (proc[p].kind = "forward" /\ ~proc[p].forcePool /\ ~proc[p].noPool
            /\ proc[p].pc = "done") =>
            /\ proc[p].handles # {}
            /\ IF proc[p].result = "ok"
               THEN \A h \in proc[p].handles : ~packetExists(h)
               ELSE \A m \in proc[p].msgs :
                       \E h \in proc[p].handles : HoldsPacket(h, m)
    /\ \A p \in Procs :
         (proc[p].kind = "flush" /\ proc[p].pc \in {"fl_next", "done"}) =>
            \A e \in proc[p].snapshot :
                e[3] \in proc[p].sent => ~HoldsPacket(e[2], e[1])

(* A flush has ended after removing the entry of a packet that a            *)
(* default-policy send had left in the pool.                                *)
C10_Witness ==
    \E p \in Procs :
        /\ proc[p].kind = "flush" /\ proc[p].pc = "done"
        /\ \E e \in proc[p].snapshot :
              /\ e[3] \in proc[p].sent
              /\ e[1] \in sendBegun
              /\ ~packetExists(e[2])

(* The send commands whose transport call has failed and that have ended.   *)
SendFailed(p) ==
    /\ proc[p].kind \in {"forward", "lazy", "reply"}
    /\ proc[p].pc = "done"
    /\ proc[p].invoked
    /\ proc[p].exc # "none"

(* C11: a send whose transport call failed ends in an error only when it    *)
(* was made with forceNoPool; under the default and the lazy policy the     *)
(* packet is in the pool and the send does not end in an error.             *)
C11_ErrorOnlyWithNoPool ==
    \A p \in Procs :
        (SendFailed(p) /\ ~proc[p].noPool) =>
            /\ \A m \in proc[p].msgs : InPool(m)
            /\ proc[p].result \notin
                   {"UIError", "MixProtocolError", "TimeoutError"}

(* C12: a send made with forceNoPool writes none of its packets to the      *)
(* pool, before or after the transport call, and when the transport fails   *)
(* the loss is reported and the send ends in the transport's error.         *)
C12_NoPoolNeverPools ==
    \A p \in Procs :
        (proc[p].kind \in {"forward", "reply"} /\ proc[p].noPool) =>
            /\ proc[p].pooled = {}
            /\ \A m \in proc[p].msgs : ~InPool(m)
            /\ proc[p].pc \notin {"pm_lock", "pp_lock", "pp_open", "pp_dump",
                                  "pm_unlock"}
            /\ SendFailed(p) =>
                  /\ proc[p].lost
                  /\ proc[p].result \in {"UIError", "TimeoutError"}

(* A forceNoPool send has ended after its transport call failed, with the   *)
(* loss reported and nothing in the pool.                                   *)
C12_Witness ==
    \E p \in Procs :
        /\ proc[p].kind = "forward" /\ proc[p].noPool
        /\ SendFailed(p)
        /\ proc[p].lost
        /\ proc[p].result = "UIError"
        /\ \A m \in proc[p].msgs : ~InPool(m)

(* C13: a process that has the SURB log open holds the lock, and when       *)
(* send-reply is over, on whatever path, the log is closed and the lock     *)
(* that generateReplyMessage took is released.                              *)
C13_LogOpenOnlyUnderLock ==
    \A p \in Procs :
        /\ proc[p].logOpen => lockCount[p] > 0
        /\ (proc[p].kind = "reply" /\ proc[p].pc = "done")
              => ~proc[p].logOpen

(* C14: whenever a process has the SURB log open, isSURBUsed(s) is true     *)
(* exactly for the SURBs that markSURBUsed was called with before, by this  *)
(* process or by an earlier one.                                            *)
C14_UsedIffMarked ==
    \A p \in Procs :
        (proc[p].kind = "reply" /\ proc[p].pc = "sr_iter") =>
            \A s \in Surbs :
                isSURBUsed(surbLog[proc[p].cwd], s) <=> built[s] > 0

(* C15: after an import that succeeded, every descriptor of the cache whose *)
(* nickname equals, ignoring case, that of the imported one has its         *)
(* identity key.                                                            *)
C15_ImportKeepsIdentity ==
    (keystore.alive /\ lastOp.op = "import" /\ lastOp.err = "none") =>
        LET new == keystore.serverList[Len(keystore.serverList)][1]
        IN  \A s \in InfosOf(keystore.serverList) :
                Lower(s.nickname) = Lower(new.nickname)
                    => s.identity = new.identity

(* C16: every (descriptor, origin) pair of serverList has its digest in     *)
(* digestMap, mapped to that origin.                                        *)
C16_DigestMapMatches ==
    keystore.alive =>
        \A e \in Range(keystore.serverList) :
            keystore.digestMap[e[1].digest] = e[2]

Count(seq, e) == Cardinality({ i \in 1..Len(seq) : seq[i] = e })

(* C17: each entry of serverList is exactly once in allServers, once in     *)
(* byNickname under its lowercased nickname and once in the bucket of each  *)
(* of its capabilities, and the tables hold nothing else.                   *)
C17_TablesAgree ==
    keystore.alive =>
        /\ \A e \in Range(keystore.serverList) :
              /\ Count(keystore.allServers, e) = 1
              /\ Count(keystore.byNickname[Lower(e[1].nickname)], e) = 1
              /\ \A c \in e[1].caps : Count(keystore.byCapability[c], e) = 1
        /\ Range(keystore.allServers) \subseteq Range(keystore.serverList)
        /\ \A n \in LowerNicknames :
              \A e \in Range(keystore.byNickname[n]) :
                  e \in Range(keystore.serverList)
                      /\ Lower(e[1].nickname) = n
        /\ \A c \in Capabilities :
              \A e \in Range(keystore.byCapability[c]) :
                  e \in Range(keystore.serverList) /\ c \in e[1].caps

(* An expunge has left descriptors of two nicknames and of several          *)
(* capabilities in the cache.                                               *)
C17_Witness ==
    /\ keystore.alive /\ lastOp.op = "expunge"
    /\ keystore.byNickname["foo"] # << >>
    /\ keystore.byNickname["bar"] # << >>
    /\ keystore.byCapability["mbox"] # << >>
    /\ keystore.byCapability["relay"] # << >>

(* C18: after rescan, importFromFile, expungeByNickname and clean, the      *)
(* cache file holds the magic and the lastModified, lastDownload,           *)
(* serverList and digestMap of the object.                                  *)
C18_CacheRoundTrip ==
    (keystore.alive /\ lastOp.err = "none"
       /\ lastOp.op \in {"rescan", "import", "expunge", "clean"}) =>
        /\ cacheFile.kind = "cache"
        /\ cacheFile.magic = MAGIC
        /\ cacheFile.lastModified = keystore.lastModified
        /\ cacheFile.lastDownload = keystore.lastDownload
        /\ cacheFile.serverList = keystore.serverList
        /\ cacheFile.digestMap = keystore.digestMap

(* An import into a cache that holds a directory has been saved.            *)
C18_Witness ==
    /\ keystore.alive /\ lastOp.op = "import" /\ lastOp.err = "none"
    /\ Len(keystore.serverList) >= 2
    /\ cacheFile.kind = "cache"
    /\ cacheFile.serverList = keystore.serverList
    /\ cacheFile.digestMap = keystore.digestMap
    /\ \E g \in Digests : keystore.digestMap[g].o = "I"

(* C19: the installed dir.gz is always a directory that parsed and was      *)
(* signed by the expected key, and a download that failed has changed       *)
(* neither dir.gz, nor the cache file, nor serverList.                      *)
C19_OnlyValidDirectoryInstalled ==
    /\ dirGz.kind = "dir" =>
          /\ dirGz.dl.parses
          /\ dirGz.dl.signer = MIXMINION_DIRECTORY_FINGERPRINT
    /\ (lastOp.op \in {"updateServers", "initDownload"}
          /\ lastOp.err # "none") => ~lastOp.changed

(* A directory signed by another key has been refused while an earlier      *)
(* download is installed.                                                   *)
C19_Witness ==
    /\ lastOp.op = "updateServers" /\ lastOp.err = "BadIdentity"
    /\ lastOp.fetched /\ ~lastOp.changed
    /\ dirGz.kind = "dir"
    /\ keystore.serverList # << >>

(* C20: an update-servers command run when the last download is not older   *)
(* than the midnight before now fetches no directory.                       *)
C20_NoRefetchSameDay ==
    (lastOp.op = "updateServers" /\ lastOp.upToDate) => ~lastOp.fetched

(* The four checks of an import, as conditions on the cache and the         *)
(* descriptor: a descriptor of the same nickname (nicknames are             *)
(* case-insensitive) has another identity key; the digest is recorded with  *)
(* an imported origin; the descriptor is expired; it is superseded by the   *)
(* known descriptors of its nickname.                                       *)
ViolatedChecks(k, info, now) ==
    LET known == InfosOf(k.byNickname[Lower(info.nickname)])
    IN  (IF \E s \in InfosOf(k.serverList) :
               /\ Lower(s.nickname) = Lower(info.nickname)
               /\ s.identity # info.identity
         THEN {1} ELSE {})
        \cup (IF k.digestMap[info.digest].o = "I" THEN {2} ELSE {})
        \cup (IF isExpiredAt(info, now) THEN {3} ELSE {})
        \cup (IF known # {} /\ isSupersededBy(info, known)
              THEN {4} ELSE {})

ErrorOfCheck(i) ==
    CASE i = 1 -> "IdentityKeyChanged"
      [] i = 2 -> "AlreadyImported"
      [] i = 3 -> "Expired"
      [] i = 4 -> "Superseded"

(* C21: an import that was refused reports the error of the earliest of     *)
(* the checks identity key, already imported, expired, superseded that the  *)
(* descriptor violates.                                                     *)
C21_EarliestCheckReported ==
    (keystore.alive /\ lastOp.op = "import" /\ lastOp.err # "none") =>
        LET v == ViolatedChecks(keystore, DescriptorOf(lastOp.arg), lastOp.at)
        IN  v # {} /\ lastOp.err = ErrorOfCheck(Min(v))

(* A path resolution that returned a route, and the route.                  *)
Resolved == pathOp.op # "none" /\ pathOp.err = "none"

Route == pathOp.route

(* The entries of the path string asked for that name servers, and whether  *)
(* it has a wildcard.                                                       *)
NamedEntries(str) == SelectSeq(str, LAMBDA e : e \notin {"*", ":"})

HasWildcard(str) == str = << >> \/ \E i \in 1..Len(str) : str[i] = "*"

(* The number of hops asked for: with a wildcard the explicit hop count,    *)
(* else the caller's default, else 6; without one the number of names.      *)
RequiredHops ==
    IF HasWildcard(pathOp.path)
    THEN IF ~pathOp.nHops.none THEN pathOp.nHops.val
         ELSE IF ~pathOp.defaultNHops.none THEN pathOp.defaultNHops.val
         ELSE 6
    ELSE Len(NamedEntries(pathOp.path))

(* C22: every route returned by path resolution has exactly the required    *)
(* number of hops.                                                          *)
C22_ExactHopCount == Resolved => Len(Route) = RequiredHops

(* The capability that the address asks of the last hop, if any.            *)
ExitCapOf(address) ==
    IF address = NoAddress THEN NoneName
    ELSE IF address.exitType = "MBOX_TYPE" THEN "mbox"
    ELSE IF address.exitType = "SMTP_TYPE" THEN "smtp"
    ELSE NoneName

(* A composed route meets the capability constraints: every hop but the     *)
(* last relays, and the last hop delivers to the address's exit type.       *)
CapsOk(route, address) ==
    /\ \A i \in 1..(Len(route) - 1) : "relay" \in route[i].caps
    /\ ExitCapOf(address) # NoneName =>
          ExitCapOf(address) \in route[Len(route)].caps

(* C23: a route that is returned meets the capability constraints, and a    *)
(* composed route that does not is rejected with the capability error.      *)
C23_CapabilitiesChecked ==
    (pathOp.op # "none" /\ Route # << >> /\ NoneInfo \notin Range(Route)) =>
        /\ pathOp.err = "none" => CapsOk(Route, pathOp.address)
        /\ ~CapsOk(Route, pathOp.address) =>
              pathOp.err \in {"NoRelaySupport", "NoExitSupport"}

(* Named hops were composed into a route of three hops or more that was     *)
(* returned for an smtp or mbox address, and elsewhere a route was refused. *)
C23_Witness ==
    /\ Resolved
    /\ Len(Route) >= 3
    /\ ExitCapOf(pathOp.address) # NoneName
    /\ Len(NamedEntries(pathOp.path)) >= 2
    /\ CapsOk(Route, pathOp.address)

(* C24: every descriptor of a returned route is valid from the start to the *)
(* end of the interval that the resolution was asked for.                   *)
C24_RouteValidOverInterval ==
    Resolved =>
        \A i \in 1..Len(Route) :
            isValidFrom(Route[i], pathOp.startAt, pathOp.endAt)

(* The hops of the route that were named: those before the wildcard, and    *)
(* those after it with the hop that the address mandates, when known.       *)
NamedBefore(str) ==
    IF \E i \in 1..Len(str) : str[i] = "*"
    THEN NamedEntries(SubSeq(str, 1,
             Min({ i \in 1..Len(str) : str[i] = "*" }) - 1))
    ELSE NamedEntries(str)

MandatedKnown ==
    /\ pathOp.address # NoAddress
    /\ pathOp.address.lastHop \notin {NoneName, ""}
    /\ getServerInfo(keystore, Name(pathOp.address.lastHop), pathOp.startAt,
                     pathOp.endAt, FALSE).info # NoneInfo

NStart == Len(NamedBefore(pathOp.path))

NEnd == Len(NamedEntries(pathOp.path)) - NStart
          + (IF MandatedKnown THEN 1 ELSE 0)

(* The hops that getPath selected itself: the exit, when no end server was  *)
(* named, and the servers for the middle.                                   *)
NewHops == SubSeq(Route, NStart + 1, Len(Route) - NEnd)

(* nNeeded and unusedMidList as getPath has them when it comes to choose    *)
(* the middle of the path.                                                  *)
MidNeeded == RequiredHops - NStart - NEnd - (IF NEnd = 0 THEN 1 ELSE 0)

UnusedRelays ==
    LET nLast == IF NEnd = 0 THEN 1 ELSE NEnd
        used == lcNicknames(SubSeq(Route, 1, NStart)
                    \o SubSeq(Route, Len(Route) - nLast + 1, Len(Route)))
    IN  { info \in find(capList(keystore, "relay"), pathOp.startAt,
                        pathOp.endAt) :
            Lower(info.nickname) \notin used }

Distinct(hops) ==
    \A i, j \in 1..Len(hops) :
        i # j => Lower(hops[i].nickname) # Lower(hops[j].nickname)

(* C25: when the unused relays are at least as many as the hops needed, no  *)
(* nickname is repeated among the hops selected; 'a,*,b' with 4 hops and 4  *)
(* relays or more known gives four hops of distinct nicknames.              *)
C25_NoRepeatWhenEnoughRelays ==
    /\ (Resolved /\ HasWildcard(pathOp.path) /\ MidNeeded >= 0
          /\ Cardinality(UnusedRelays) >= MidNeeded) => Distinct(NewHops)
    /\ (Resolved /\ pathOp.path = <<"a", "*", "b">> /\ RequiredHops = 4
          /\ Cardinality(find(capList(keystore, "relay"), pathOp.startAt,
                              pathOp.endAt)) >= 4) =>
            Len(Route) = 4 /\ Distinct(Route)

(* 'a,*,b' with 4 hops for an smtp address was resolved with four relays    *)
(* known, two of the hops having been selected at random.                   *)
C25_Witness ==
    /\ Resolved
    /\ pathOp.path = <<"a", "*", "b">>
    /\ RequiredHops = 4
    /\ pathOp.address # NoAddress
    /\ pathOp.address.exitType = "SMTP_TYPE"
    /\ Len(NewHops) = 2
    /\ Cardinality(UnusedRelays) >= 2

(* C26: a forward path that is returned has two legs that are not empty,    *)
(* and a reply half-path that is returned has an empty first leg and the    *)
(* whole route as its second.                                               *)
C26_LegsOfForwardAndHalfPath ==
    /\ (Resolved /\ ~pathOp.halfPath) =>
          pathOp.path1 # << >> /\ pathOp.path2 # << >>
    /\ (Resolved /\ pathOp.halfPath) =>
          pathOp.path1 = << >> /\ pathOp.path2 = Route

(* A reply half-path of two hops or more was returned.                      *)
C26_Witness ==
    Resolved /\ pathOp.halfPath /\ Len(Route) >= 2 /\ pathOp.path2 = Route

(* A path string with one colon and at most one wildcard.                   *)
Positions(str, e) == { i \in 1..Len(str) : str[i] = e }

OneColon(str) ==
    Cardinality(Positions(str, ":")) = 1
      /\ Cardinality(Positions(str, "*")) <= 1

(* The number of hops in the first leg that the colon stands for: the names *)
(* before it when no wildcard precedes it; else the hops asked for less the *)
(* names after it, and less the hop that the address mandates.              *)
ImpliedSwapAt(str) ==
    LET colon == Min(Positions(str, ":"))
        stars == Positions(str, "*")
        after == Len(NamedEntries(SubSeq(str, colon + 1, Len(str))))
    IN  IF stars = {} \/ colon < Min(stars)
        THEN colon - 1
        ELSE RequiredHops - after
               - (IF pathOp.address.lastHop \notin {NoneName, ""}
                  THEN 1 ELSE 0)

Named(names) ==
    [i \in 1..Len(names) |->
        getServerInfo(keystore, Name(names[i]), pathOp.startAt, pathOp.endAt,
                      TRUE).info]

(* The hop that the address mandates, as a list of one name or of none.     *)
MandatedHop ==
    IF pathOp.address # NoAddress
         /\ pathOp.address.lastHop \notin {NoneName, ""}
    THEN <<pathOp.address.lastHop>> ELSE << >>

(* C29: with the colon after the wildcard the second leg is the servers     *)
(* named after the colon followed by the hop that the address mandates;     *)
(* with the colon before the wildcard, or with no wildcard, the first leg   *)
(* is the servers named before the colon.                                   *)
C29_SplitAtColon ==
    (Resolved /\ pathOp.op = "forward" /\ OneColon(pathOp.path)) =>
        LET str == pathOp.path
            colon == Min(Positions(str, ":"))
            stars == Positions(str, "*")
        IN  IF stars # {} /\ Min(stars) < colon
            THEN pathOp.path2 =
                   Named(NamedEntries(SubSeq(str, colon + 1, Len(str)))
                           \o MandatedHop)
            ELSE pathOp.path1 = Named(NamedEntries(SubSeq(str, 1, colon - 1)))

(* A step in which SURBLog.clean has run on the log of directory d.         *)
Cleaned(d) == surbLog'[d].lastCleaned # surbLog[d].lastCleaned

(* The entries that a cleaning at time now is to keep: those that do not    *)
(* expire before now + 1 hour.                                              *)
KeptByClean(log, now) ==
    { s \in log.used : ~(SurbTimestamp(s) < now + CleanSlack) }

(* C28: a cleaning of the SURB log removes the entries that expire before   *)
(* now + 1 hour and no others, and leaves LAST_CLEANED at now.              *)
C28_CleanRemovesExpired ==
    [][\A d \in Cwds :
          Cleaned(d) =>
              /\ surbLog'[d].used = KeptByClean(surbLog[d], clock)
              /\ surbLog'[d].lastCleaned.val = clock]_vars

(* C30: every pkt_ file of the pool holds a complete packet at every        *)
(* moment, whether or not a process stopped while it was writing one, and   *)
(* no command that reads the pool fails on an entry half written.           *)
C30_PoolEntriesComplete ==
    /\ \A h \in Handles : pool[h].kind # "partial"
    /\ \A p \in DOMAIN proc : proc[p].result # "EOFError"

C32_TruncatedKeyEndsCommand ==
    \A p \in Procs :
        proc[p].loadErr = "TooShort" =>
            proc[p].pc = "done" /\ proc[p].result \notin {"ok", "none"}

(* The relays known for the interval of the resolution.                     *)
KnownRelays ==
    find(capList(keystore, "relay"), pathOp.startAt, pathOp.endAt)

(* The middle hops were picked one by one: fewer unused relays than hops    *)
(* needed, and three relays or more.                                        *)
PickedOneByOne ==
    /\ Resolved
    /\ HasWildcard(pathOp.path)
    /\ MidNeeded > 0
    /\ Cardinality(UnusedRelays) < MidNeeded
    /\ Cardinality(KnownRelays) >= 3

(* C33: when the middle hops are picked one by one, no two neighbours among *)
(* the last hop before the wildcard, the middle hops and the first hop      *)
(* after them have the same nickname.                                       *)
C33_NoSameNeighbours ==
    PickedOneByOne =>
        \A i \in 1..(Len(Route) - 1) :
            (NStart <= i /\ i <= NStart + MidNeeded) =>
                Lower(Route[i].nickname) # Lower(Route[i + 1].nickname)

(* Two middle hops or more were picked one by one between a named first    *)
(* hop and a named last hop, and a relay occurs twice on the route.         *)
C33_Witness ==
    /\ PickedOneByOne
    /\ NStart >= 1
    /\ NEnd >= 1
    /\ MidNeeded >= 2
    /\ ~Distinct(Route)

(* The descriptors of the cache that have the nickname of hop, whatever its *)
(* case, and are valid over the interval of the resolution.                 *)
ValidNamesakes(hop) ==
    { e[1] : e \in { keystore.serverList[i] :
                       i \in 1..Len(keystore.serverList) } } \cap
    { d \in Descriptors \cup DirectoryServers :
        /\ Lower(d.nickname) = Lower(hop.nickname)
        /\ isValidFrom(d, pathOp.startAt, pathOp.endAt) }

C35_FreshLogOpens ==
    \A p \in Procs :
        surbLog[proc[p].cwd].lastCleaned.kind = "none" =>
            proc[p].result # "KeyError"

(* C36: a flush of the pool that has reached the transport ends normally,   *)
(* with every group of packets it found having been handed to the           *)
(* transport, whatever the transport raised for the groups before.          *)
C36_FlushAttemptsEveryGroup ==
    \A p \in Procs :
        (proc[p].kind = "flush" /\ proc[p].pc = "done" /\ proc[p].invoked) =>
            proc[p].result = "ok" /\ proc[p].todo = {}

C38_StrictNeverNone ==
    /\ (lastOp.op = "getServerInfo" /\ lastOp.strict /\ lastOp.err = "none") =>
           lastOp.info # NoneInfo
    /\ \A i \in 1..Len(pathOp.route) : pathOp.route[i] # NoneInfo

(* C39: an importFromFile that ends with one of its errors leaves the       *)
(* server list, the digest map, the tables, the files under imported/ and   *)
(* the cache file as they were.                                             *)
C39_FailedImportChangesNothing ==
    [][(dirOps' = dirOps + 1 /\ lastOp'.op = "import" /\ lastOp'.err # "none")
          => UNCHANGED <<keystore, imported, cacheFile, dirGz>>]_vars

(* An import was refused as already imported, with the descriptor in the    *)
(* list and its file under imported/.                                       *)
C39_Witness ==
    /\ lastOp.op = "import"
    /\ lastOp.err = "AlreadyImported"
    /\ \E f \in FileNames :
          imported[f].kind = "desc" /\ imported[f].desc.digest = lastOp.arg

DigestsIn(sl) == { e[1].digest : e \in Range(sl) }

(* C40: when expungeByNickname takes an imported descriptor out of the      *)
(* server list, the digest map no longer records that descriptor as         *)
(* imported, so that the same file can be imported again.                   *)
C40_ExpungeForgetsDigest ==
    [][(dirOps' = dirOps + 1 /\ lastOp'.op = "expunge") =>
          \A d \in DigestsIn(keystore.serverList) \ DigestsIn(keystore'.serverList) :
              keystore'.digestMap[d].o # "I"]_vars

====
